---- MODULE Spec2Model ----
(***************************************************************************)
(* The request/response core of the twintag SDK: class Client of           *)
(* src/sdk/client.ts, with the error model of src/sdk/error.model.ts and   *)
(* the shared log level of src/sdk/environment.ts.                         *)
(*                                                                         *)
(* One Client instance issues one call at a time.  A call starts with one  *)
(* of get / put / post / delete / do, runs synchronously up to             *)
(* `await fetch(request)`, and ends when fetch rejects (the call throws)   *)
(* or resolves with a response (the call classifies it).                   *)
(***************************************************************************)
EXTENDS Integers, Sequences, FiniteSets, TLC

VARIABLES
    token,      \* Client.token
    logLevel,   \* environment._logLevel
    now,        \* the clock read by Date.now()
    start,      \* Client.start
    pc,         \* "idle" | "sending" | "returned" | "thrown"
    call,       \* the operation called and the arguments the caller passed
    args,       \* the RequestInit object, as the call has mutated it
    request,    \* the Request built at client.ts:148
    response,   \* the Response fetch resolved with
    result,     \* the [payload, error] pair the call returned
    thrown,     \* the exception the call threw
    log,        \* what the call wrote to the console
    setLevel,   \* the last setLogLevel call: level before, asked, returned
    flights,    \* the calls in flight on one client, when calls overlap
    sdk,        \* the operation of a collaborator of the client in progress
    errs,       \* a TwintagError under construction and overwriting
    bag,        \* a bag's folder tree and the path being resolved
    view,       \* a View: its cached data and the calls running on it
    env,        \* the Environment object: hosts and auto-detection
    rec         \* a listObject record being inserted or updated

\* the state of one call of the client
clientVars == <<token, logLevel, now, start, pc, call, args, request,
                response, result, thrown, log, setLevel>>

\* the state of the other machines of this module
others == <<flights, sdk, errs, bag, view, env, rec>>

vars == <<clientVars, others>>

----------------------------------------------------------------------------
(* Bounds of the model. *)

MaxClock == 1

----------------------------------------------------------------------------
(* JavaScript values. *)

Undefined == [kind |-> "undefined"]
Null == [kind |-> "null"]
Str(s) == [kind |-> "string", s |-> s]
Num(n) == [kind |-> "number", n |-> n]
Arr(items) == [kind |-> "array", items |-> items]
Obj(fields) == [kind |-> "object", fields |-> fields]
Field(n, v) == [name |-> n, value |-> v]
Stream(bytes, disturbed) ==
    [kind |-> "stream", bytes |-> bytes, disturbed |-> disturbed]
Exception(name, message) ==
    [kind |-> "exception", name |-> name, message |-> message]
None == [kind |-> "none"]

\* `{}`: the empty payload of client.ts:162, 168 and 188
EmptyObject == Obj(<<>>)

\* JavaScript truthiness, as `!x`, `x && y` and `x || y` test it
Truthy(v) ==
    CASE v.kind \in {"undefined", "null", "none"} -> FALSE
      [] v.kind = "string" -> v.s # ""
      [] v.kind = "number" -> v.n # 0
      [] OTHER -> TRUE

\* v[name] for a value that is neither null nor undefined
Prop(v, name) ==
    IF v.kind = "object"
    THEN LET hits == {i \in DOMAIN v.fields : v.fields[i].name = name}
         IN IF hits = {} THEN Undefined
            ELSE v.fields[CHOOSE i \in hits : TRUE].value
    ELSE IF v.kind = "array" /\ name = "length" THEN Num(Len(v.items))
    ELSE Undefined

\* `x.length > 0`: false when x.length is undefined
LengthPositive(v) ==
    LET len == Prop(v, "length")
    IN len.kind = "number" /\ len.n > 0

\* `${e}` for an exception
ErrorText(e) == e.name \o ": " \o e.message

----------------------------------------------------------------------------
(* Texts that travel as bodies, and the platform's JSON conversions over    *)
(* them (JSON.stringify at client.ts:220, response.json() at 159 and 175). *)

Entry422 ==
    Obj(<<Field("status", Num(422)), Field("title", Str("Bad")),
          Field("detail", Str("field X invalid"))>>)
ObjA == Obj(<<Field("a", Num(1))>>)
ObjId == Obj(<<Field("id", Str("1"))>>)
ViewAbc == Obj(<<Field("authToken", Str("abc"))>>)

TextNotJson == "<html>Bad Gateway</html>"
TextNull == "null"
TextEmptyObject == "{}"
TextObjA == "{\"a\":1}"
TextObjId == "{\"id\":\"1\"}"
TextViewAbc == "{\"authToken\":\"abc\"}"
TextEntry422 ==
    "{\"status\":422,\"title\":\"Bad\",\"detail\":\"field X invalid\"}"
TextErrorArray == "[" \o TextEntry422 \o "]"
TextErrorsObject == "{\"errors\":[" \o TextEntry422 \o "]}"
TextErrorsNull == "{\"errors\":[null]}"
TextErrorsEmpty == "{\"errors\":[]}"
TextPreset == "preset-body"

\* the decimal text of a number
NumText(n) ==
    CASE n = 0 -> "0" [] n = 1 -> "1" [] n = 422 -> "422" [] OTHER -> "NaN"

\* a string as a JSON string literal: quoted, inner quotes escaped
Quote(s) ==
    CASE s = TextObjA -> "\"{\\\"a\\\":1}\""
      [] OTHER -> "\"" \o s \o "\""

RECURSIVE JsonStringify(_)
RECURSIVE JoinItems(_)
RECURSIVE JoinFields(_)
JoinItems(items) ==
    IF items = <<>> THEN ""
    ELSE JsonStringify(Head(items))
         \o (IF Len(items) > 1 THEN "," ELSE "") \o JoinItems(Tail(items))
JoinFields(fields) ==
    IF fields = <<>> THEN ""
    ELSE Quote(Head(fields).name) \o ":" \o JsonStringify(Head(fields).value)
         \o (IF Len(fields) > 1 THEN "," ELSE "") \o JoinFields(Tail(fields))
\* JSON.stringify(v) for a value that is not undefined
JsonStringify(v) ==
    CASE v.kind = "null" -> "null"
      [] v.kind = "number" -> NumText(v.n)
      [] v.kind = "string" -> Quote(v.s)
      [] v.kind = "array" -> "[" \o JoinItems(v.items) \o "]"
      [] v.kind = "object" -> "{" \o JoinFields(v.fields) \o "}"

\* JSON.parse(text): the decoded value, or the SyntaxError it throws
JsonParse(text) ==
    CASE text = TextNull -> Null
      [] text = TextEmptyObject -> EmptyObject
      [] text = TextObjA -> ObjA
      [] text = TextObjId -> ObjId
      [] text = TextViewAbc -> ViewAbc
      [] text = TextErrorArray -> Arr(<<Entry422>>)
      [] text = TextErrorsObject -> Obj(<<Field("errors", Arr(<<Entry422>>))>>)
      [] text = TextErrorsNull -> Obj(<<Field("errors", Arr(<<Null>>))>>)
      [] text = TextErrorsEmpty -> Obj(<<Field("errors", Arr(<<>>))>>)
      [] text = "" -> Exception("SyntaxError", "Unexpected end of JSON input")
      [] OTHER -> Exception("SyntaxError", "Unexpected token < in JSON")

----------------------------------------------------------------------------
(* src/sdk/error.model.ts *)

\* new TwintagErrorValue()
TwintagErrorValue ==
    Obj(<<Field("status", Num(0)), Field("title", Str("")),
          Field("detail", Str(""))>>)

\* obj.name = value on an object that has the field
SetField(obj, name, value) ==
    Obj([i \in DOMAIN obj.fields |->
            IF obj.fields[i].name = name THEN Field(name, value)
            ELSE obj.fields[i]])

\* super(message): Error's message is '' for undefined, else the string
ErrorMessage(message) ==
    CASE message.kind = "undefined" -> ""
      [] message.kind = "string" -> message.s
      [] message.kind = "number" -> NumText(message.n)
      [] OTHER -> "[object Object]"

\* new TwintagError(message, errors, name)
TwintagError(message, errors, name) ==
    [kind |-> "TwintagError",
     message |-> ErrorMessage(message),
     name |-> IF Truthy(name) THEN name ELSE Str(""),
     stack |-> Undefined,
     errors |-> IF Truthy(errors) THEN errors ELSE Arr(<<>>)]

\* SetMessage as it would be if it built a fresh error around the message
SetMessageRebuilding(e, message) ==
    TwintagError(Str(message), Undefined, Undefined)

\* TwintagError.setMessage(message): error.model.ts:13-15
SetMessage(e, message) == [e EXCEPT !.message = message]

\* Client.CreateTwintagError: the error built, or the TypeError thrown by
\* reading .detail of a null/undefined first entry
CreateTwintagError(err) ==
    IF Truthy(err) /\ Truthy(Prop(err, "errors"))
       /\ LengthPositive(Prop(err, "errors"))
    THEN LET first == Prop(err, "errors").items[1]
         IN IF first.kind \in {"null", "undefined"}
            THEN Exception("TypeError",
                           "Cannot read properties of null (reading 'detail')")
            ELSE TwintagError(Prop(first, "detail"), first,
                              Prop(first, "title"))
    ELSE TwintagError(Str("Failed to perform the request"), err,
                      Str("Twintag Error"))

----------------------------------------------------------------------------
(* The platform's Headers and Request, as client.ts uses them. *)

VERSION == "VERSION"
Path == "/x"

\* a header name as Headers stores it
LowerCase(name) ==
    CASE name = "Authorization" -> "authorization"
      [] name = "Content-Type" -> "content-type"
      [] name = "X-Client-Name" -> "x-client-name"
      [] name = "X-Client-Version" -> "x-client-version"
      [] name = "X-Trace" -> "x-trace"
      [] OTHER -> name

\* the order in which a Headers object is iterated: sorted by name
HeaderOrder ==
    <<"authorization", "content-type", "x-client-name", "x-client-version",
      "x-trace">>

\* new Headers(init): a copy; undefined and no headers are both <<>>
HeadersNew(init) ==
    [i \in DOMAIN init |->
        [name |-> LowerCase(init[i].name), value |-> init[i].value]]

\* headers.append(name, value)
HeadersAppend(headers, name, value) ==
    Append(headers, [name |-> LowerCase(name), value |-> value])

\* headers.has(name)
HeadersHas(headers, name) ==
    \E i \in DOMAIN headers : headers[i].name = LowerCase(name)

RECURSIVE JoinValues(_)
JoinValues(hs) ==
    IF hs = <<>> THEN ""
    ELSE Head(hs).value
         \o (IF Len(hs) > 1 THEN ", " ELSE "") \o JoinValues(Tail(hs))

\* headers.get(name) when the header is there: its values joined by ', '
HeadersGet(headers, name) ==
    LET n == LowerCase(name)
        Is(h) == h.name = n
    IN JoinValues(SelectSeq(headers, Is))

\* the [name, value] pairs `for (const header of headers)` yields
HeadersEntries(headers) ==
    LET Present(n) == HeadersHas(headers, n)
        names == SelectSeq(HeaderOrder, Present)
    IN [i \in DOMAIN names |->
           [name |-> names[i], value |-> HeadersGet(headers, names[i])]]

\* the method as Request normalises it
NormalizeMethod(m) ==
    CASE m = "delete" -> "DELETE"
      [] m = "put" -> "PUT"
      [] m = "get" -> "GET"
      [] OTHER -> m

\* new Request(path, init): the request, or the TypeError it throws for a
\* GET with a body.  A string body without Content-Type gets text/plain.
NewRequest(path, init) ==
    LET method == NormalizeMethod(init.method)
        hasBody == init.body.kind \notin {"undefined", "null"}
        copied == HeadersNew(init.headers)
        headers ==
            IF hasBody /\ init.body.kind = "string"
               /\ ~HeadersHas(copied, "Content-Type")
            THEN HeadersAppend(copied, "Content-Type",
                               "text/plain;charset=UTF-8")
            ELSE copied
    IN IF hasBody /\ method = "GET"
       THEN Exception("TypeError",
                      "Request with GET/HEAD method cannot have body")
       ELSE [kind |-> "request", method |-> method, url |-> path,
             headers |-> headers,
             body |-> IF hasBody THEN Stream(init.body.s, FALSE) ELSE Null,
             locked |-> FALSE]

Ok(status) == 200 <= status /\ status <= 299

StatusText(status) ==
    CASE status = 200 -> "OK"
      [] status = 204 -> "No Content"
      [] status = 422 -> "Unprocessable Entity"
      [] OTHER -> ""

\* a Response as fetch resolves with it; text = None for a null body
NewResponse(status, text) ==
    [kind |-> "response", status |-> status, statusText |-> StatusText(status),
     body |-> IF text = None THEN Null ELSE Stream(text.s, FALSE)]

\* what `await response.json()` evaluates to (a value or the exception)
ResponseJson(rsp) ==
    IF rsp.body.kind = "null" THEN JsonParse("")
    ELSE JsonParse(rsp.body.bytes)

\* the response after json() has read its body
BodyRead(rsp) ==
    IF rsp.body.kind = "null" THEN rsp
    ELSE [rsp EXCEPT !.body = Stream(rsp.body.bytes, TRUE)]

----------------------------------------------------------------------------
(* Logging: Client.hasLoggableRequestBody, logHeaders, logRequest,         *)
(* logResponse and logError.  Each yields the console entries it writes.   *)

LogLevels == {"none", "single", "headers", "body"}

\* the characters of the Authorization values the model sends
Chars(s) ==
    CASE s = "Bearer abc" ->
             <<"B", "e", "a", "r", "e", "r", " ", "a", "b", "c">>
      [] s = "Basic xyz" ->
             <<"B", "a", "s", "i", "c", " ", "x", "y", "z">>
      [] s = "Basic xyz, Bearer abc" ->
             <<"B", "a", "s", "i", "c", " ", "x", "y", "z", ",", " ",
               "B", "e", "a", "r", "e", "r", " ", "a", "b", "c">>
      [] s = "Bearer abc, Bearer abc" ->
             <<"B", "e", "a", "r", "e", "r", " ", "a", "b", "c", ",", " ",
               "B", "e", "a", "r", "e", "r", " ", "a", "b", "c">>
      [] s = "Basic xyz, Bearer abc, Bearer abc" ->
             <<"B", "a", "s", "i", "c", " ", "x", "y", "z", ",", " ",
               "B", "e", "a", "r", "e", "r", " ", "a", "b", "c", ",", " ",
               "B", "e", "a", "r", "e", "r", " ", "a", "b", "c">>
      [] s = "abc" -> <<"a", "b", "c">>
      [] OTHER -> <<>>

RECURSIVE JoinChars(_)
JoinChars(cs) == IF cs = <<>> THEN "" ELSE Head(cs) \o JoinChars(Tail(cs))

\* s.startsWith('Bearer')
StartsWithBearer(s) ==
    LET cs == Chars(s)
    IN Len(cs) >= 6 /\ SubSeq(cs, 1, 6) = <<"B", "e", "a", "r", "e", "r">>

\* s.slice(from, to): a negative index counts from the end
SliceChars(s, from, to) ==
    LET cs == Chars(s)
        Clamp(i) == IF i < 0 THEN (IF Len(cs) + i < 0 THEN 0 ELSE Len(cs) + i)
                    ELSE (IF i > Len(cs) THEN Len(cs) ELSE i)
    IN SubSeq(cs, Clamp(from) + 1, Clamp(to))

Slice(s, from, to) == JoinChars(SliceChars(s, from, to))

\* Client.logHeaders
LogHeaders(headers) ==
    LET es == HeadersEntries(headers)
        Shown(h) ==
            IF h.name # "authorization" THEN h.value
            ELSE IF StartsWithBearer(h.value)
                 THEN "Bearer " \o Slice(h.value, 20, 40) \o " ... "
                      \o Slice(h.value, Len(Chars(h.value)) - 20,
                               Len(Chars(h.value)))
                 ELSE h.value
        \* the characters written for the Authorization header; they are
        \* kept for that header only
        ShownChars(h) ==
            IF StartsWithBearer(h.value)
            THEN <<"B", "e", "a", "r", "e", "r", " ">>
                 \o SliceChars(h.value, 20, 40) \o <<" ", ".", ".", ".", " ">>
                 \o SliceChars(h.value, Len(Chars(h.value)) - 20,
                               Len(Chars(h.value)))
            ELSE Chars(h.value)
    IN [i \in DOMAIN es |->
           [fn |-> "logHeaders", name |-> es[i].name, text |-> Shown(es[i]),
            chars |-> IF es[i].name = "authorization"
                      THEN ShownChars(es[i]) ELSE <<>>]]

\* Client.hasLoggableRequestBody; types.find gives undefined, never null,
\* when the content type is not listed
HasLoggableRequestBody(req) ==
    IF req.body.kind = "null" THEN FALSE
    ELSE IF HeadersHas(req.headers, "Content-Type")
            /\ HeadersGet(req.headers, "Content-Type") # ""
         THEN LET contentType == HeadersGet(req.headers, "Content-Type")
                  types == {"application/json", "application/graphql",
                            "application/graphql+json"}
                  found == IF contentType \in types THEN Str(contentType)
                           ELSE Undefined
              IN found # Null
         ELSE FALSE

\* Client.logRequest: the entries written, and whether the request's body
\* was teed (req.body.tee() locks req.body; tee[1] is returned)
LogRequest(level, req) ==
    LET line == <<[fn |-> "logRequest", method |-> req.method,
                   url |-> req.url]>>
    IN CASE level \in {"none", "single"} -> [entries |-> <<>>, teed |-> FALSE]
         [] level = "headers" ->
                [entries |-> line \o LogHeaders(req.headers), teed |-> FALSE]
         [] level = "body" ->
                IF HasLoggableRequestBody(req)
                THEN [entries |-> line \o LogHeaders(req.headers)
                                  \o <<[fn |-> "logRequest",
                                        stream |-> req.body]>>,
                      teed |-> TRUE]
                ELSE [entries |-> line \o LogHeaders(req.headers),
                      teed |-> FALSE]

\* Client.logResponse; text is the decoded body or Undefined
LogResponse(level, req, rsp, text, elapsed) ==
    LET status == [fn |-> "logResponse", status |-> rsp.status,
                   statusText |-> rsp.statusText, elapsed |-> elapsed]
    IN CASE level = "none" -> <<>>
         [] level = "single" ->
                <<[fn |-> "logResponse", method |-> req.method,
                   url |-> req.url, status |-> rsp.status,
                   statusText |-> rsp.statusText, elapsed |-> elapsed]>>
         [] level = "headers" -> <<status>> \o LogHeaders(req.headers)
         [] level = "body" ->
                <<status>> \o LogHeaders(req.headers)
                \o (IF Truthy(text)
                    THEN <<[fn |-> "logResponse", body |-> text]>>
                    ELSE <<>>)

\* the headers dump of logError: every header in full
LogErrorHeaders(req) ==
    IF req.kind # "request" THEN <<>>
    ELSE LET es == HeadersEntries(req.headers)
         IN [i \in DOMAIN es |->
                [fn |-> "logError", name |-> es[i].name,
                 text |-> es[i].value,
                 chars |-> IF es[i].name = "authorization"
                           THEN Chars(es[i].value) ELSE <<>>]]

\* Client.logError; req and rsp are Null when there is none yet
LogError(level, req, rsp, text, elapsed) ==
    LET statusText == IF rsp.kind = "response" THEN Str(rsp.statusText)
                      ELSE Num(0)
        status == [fn |-> "logError", statusText |-> statusText,
                   elapsed |-> elapsed]
    IN CASE level = "none" -> <<>>
         [] level = "single" ->
                <<[fn |-> "logError",
                   method |-> IF req.kind = "request" THEN req.method ELSE "",
                   url |-> IF req.kind = "request" THEN req.url ELSE "",
                   statusText |-> statusText, elapsed |-> elapsed]>>
         [] level = "headers" -> <<status>> \o LogErrorHeaders(req)
         [] level = "body" ->
                <<status>> \o LogErrorHeaders(req)
                \o <<[fn |-> "logError", text |-> text]>>

----------------------------------------------------------------------------
(* The inputs the model draws from. *)

Tokens == {Undefined, Str(""), Str("abc")}

CallerHeaders ==
    {<<>>,
     <<[name |-> "Content-Type", value |-> "application/json"]>>,
     <<[name |-> "Authorization", value |-> "Basic xyz"]>>,
     <<[name |-> "Content-Type", value |-> "application/octet-stream"],
       [name |-> "X-Trace", value |-> "t1"]>>}

CallerBodies == {Undefined, Str(""), Str(TextPreset)}

Values == {Undefined, ObjA}

\* the RequestInit objects a caller passes; `args` left out is `{}`
CallerArgs ==
    {[headers |-> h, body |-> b, method |-> ""] :
        h \in CallerHeaders, b \in CallerBodies}

Statuses == {200, 204, 422}

ResponseTexts ==
    {None, Str(""), Str(TextNotJson), Str(TextNull), Str(TextEmptyObject),
     Str(TextObjA), Str(TextErrorArray), Str(TextErrorsObject),
     Str(TextErrorsNull)}

\* the responses the server can give; a 204 has no body
Responses ==
    {NewResponse(st, t) : st \in Statuses \ {204}, t \in ResponseTexts}
    \cup {NewResponse(204, None)}

NetworkError == Exception("TypeError", "error sending request")
UnusableBody == Exception("TypeError", "Input request's body is unusable.")

----------------------------------------------------------------------------
(* The state machine. *)

Init ==
    /\ token \in Tokens
    /\ logLevel = "none"
    /\ now = 0
    /\ start = 0
    /\ pc = "idle"
    /\ call = None
    /\ args = None
    /\ request = None
    /\ response = None
    /\ result = None
    /\ thrown = None
    /\ log = <<>>
    /\ setLevel = None
    /\ view = None
    /\ env = None
    /\ rec = None
    /\ flights = None
    /\ sdk = None
    /\ errs = None
    /\ bag = None

\* AuthHeaders as it would be if skipAuth were not tested
AuthHeadersIgnoringSkipAuth(headers, tok, skipAuth) ==
    IF Truthy(tok)
    THEN HeadersAppend(HeadersNew(headers), "Authorization",
                       "Bearer " \o tok.s)
    ELSE headers

\* the authorization injection of Client.do: client.ts:133-137
AuthHeaders(headers, tok, skipAuth) ==
    IF Truthy(tok) /\ ~skipAuth
    THEN HeadersAppend(HeadersNew(headers), "Authorization",
                       "Bearer " \o tok.s)
    ELSE headers

\* AnalyticsHeaders as it would be if it started from an empty Headers
\* object instead of a copy of args.headers
AnalyticsHeadersReplacing(headers) ==
    HeadersAppend(
        HeadersAppend(HeadersNew(<<>>), "X-Client-Name", "twintag.js"),
        "X-Client-Version", VERSION)

\* the client analytics headers of Client.do: client.ts:140-143
AnalyticsHeaders(headers) ==
    HeadersAppend(
        HeadersAppend(HeadersNew(headers), "X-Client-Name", "twintag.js"),
        "X-Client-Version", VERSION)

\* Client.do up to `await fetch(request)`: client.ts:128-155
Do(op, path, a, skipParse, skipAuth, value, callerArgs) ==
    LET h1 == AuthHeaders(a.headers, token, skipAuth)
        h2 == AnalyticsHeaders(h1)
        a2 == [a EXCEPT !.headers = h2]
        req == NewRequest(path, a2)
        lr == LogRequest(logLevel, req)
    IN /\ start' = now
       /\ call' = [op |-> op, path |-> path, value |-> value,
                   args |-> callerArgs, skipParse |-> skipParse,
                   skipAuth |-> skipAuth, token |-> token]
       /\ response' = None
       /\ result' = None
       /\ IF req.kind = "exception"
          THEN /\ args' = a2
               /\ request' = None
               /\ log' = LogError(logLevel, Null, Null, ErrorText(req), 0)
               /\ thrown' = req
               /\ pc' = "thrown"
          ELSE /\ args' = IF lr.teed THEN [a2 EXCEPT !.body = req.body] ELSE a2
               /\ request' = [req EXCEPT !.locked = lr.teed]
               /\ log' = lr.entries
               /\ thrown' = None
               /\ pc' = "sending"
       /\ setLevel' = None
       /\ UNCHANGED <<token, logLevel, now>>
       /\ UNCHANGED others

\* WithBody as it would be if a pre-set args.body were not tested
WithBodyAlwaysSerialized(a, value) ==
    IF Truthy(value)
    THEN [a EXCEPT !.body = Str(JsonStringify(value))]
    ELSE a

\* the body put, post and delete give the call: client.ts:219-221
WithBody(a, value) ==
    IF ~Truthy(a.body) /\ Truthy(value)
    THEN [a EXCEPT !.body = Str(JsonStringify(value))]
    ELSE a

\* Client.get
Get ==
    \E a \in CallerArgs, skipAuth \in BOOLEAN :
        /\ pc = "idle"
        /\ Do("get", Path, [a EXCEPT !.method = "GET"], FALSE, skipAuth,
              Undefined, a)

\* Client.put
Put ==
    \E value \in Values, a \in CallerArgs, skipAuth \in BOOLEAN :
        /\ pc = "idle"
        /\ Do("put", Path, WithBody([a EXCEPT !.method = "PUT"], value),
              FALSE, skipAuth, value, a)

\* Client.post
Post ==
    \E value \in Values, a \in CallerArgs, skipAuth \in BOOLEAN :
        /\ pc = "idle"
        /\ Do("post", Path, WithBody([a EXCEPT !.method = "POST"], value),
              FALSE, skipAuth, value, a)

\* Delete as it would be if it asked do to parse, like put
DeleteParsed ==
    \E value \in Values, a \in CallerArgs :
        /\ pc = "idle"
        /\ Do("delete", Path, WithBody([a EXCEPT !.method = "delete"], value),
              FALSE, FALSE, value, a)

\* Client.delete
Delete ==
    \E value \in Values, a \in CallerArgs :
        /\ pc = "idle"
        /\ Do("delete", Path, WithBody([a EXCEPT !.method = "delete"], value),
              TRUE, FALSE, value, a)

\* a direct call of Client.do, as View.upload and View.download make
DoDirect ==
    \E a \in CallerArgs, skipParse \in BOOLEAN, skipAuth \in BOOLEAN :
        /\ pc = "idle"
        /\ Do("do", Path, [a EXCEPT !.method = "PUT"], skipParse, skipAuth,
              Undefined, [a EXCEPT !.method = "PUT"])

\* RawPayload as it would be if the body were read before it is handed over
RawPayloadAfterReading(rsp) ==
    IF rsp.body.kind = "null" THEN EmptyObject
    ELSE Stream(rsp.body.bytes, TRUE)

\* the payload of a 2xx response in raw mode: client.ts:166-171
RawPayload(rsp) ==
    IF rsp.body.kind = "null" THEN EmptyObject ELSE rsp.body

\* ParseFailure as it would be if the detail left the decode error out
ParseFailureWithoutCause(error) ==
    SetField(
        SetField(TwintagErrorValue, "title", Str("failed to parse response")),
        "detail", Str("something went wrong when parsing response"))

\* the error value built when a 2xx body does not decode: client.ts:184-186
ParseFailure(error) ==
    SetField(
        SetField(TwintagErrorValue, "title", Str("failed to parse response")),
        "detail",
        Str("something went wrong when parsing response; "
            \o ErrorText(error)))

\* ErrorReturn as it would be if the decoded body were handed back too
ErrorReturnWithBody(decoded, err) == [payload |-> decoded, err |-> err]

\* the pair returned beside an error: `[<T>{}, err]`, the decoded body is
\* dropped: client.ts:162 and 188
ErrorReturn(decoded, err) == [payload |-> EmptyObject, err |-> err]

\* Client.do once fetch has resolved with rsp: client.ts:157-193.
\* Gives the way the call ends, what it returns or throws, what it logs
\* and the response as the call leaves it.
Classify(level, req, rsp, skipParse, elapsed) ==
    LET json == ResponseJson(rsp)
        read == BodyRead(rsp)
        Throw(e) ==
            [pc |-> "thrown", result |-> None, thrown |-> e, response |-> read,
             entries |-> LogError(level, req, rsp, ErrorText(e), elapsed)]
        Return(pair, rsp2, entries) ==
            [pc |-> "returned", result |-> pair, thrown |-> None,
             response |-> rsp2, entries |-> entries]
    IN IF ~Ok(rsp.status)
       THEN IF json.kind = "exception" THEN Throw(json)
            ELSE LET err == CreateTwintagError(json)
                 IN IF err.kind = "exception"
                    THEN [Throw(err) EXCEPT
                            !.entries =
                                LogResponse(level, req, rsp, json, elapsed)
                                \o @]
                    ELSE Return(ErrorReturn(json, err), read,
                                LogResponse(level, req, rsp, json, elapsed))
       ELSE IF skipParse
       THEN Return([payload |-> RawPayload(rsp), err |-> Undefined], rsp,
                   LogResponse(level, req, rsp, Undefined, elapsed))
       ELSE IF json.kind # "exception"
       THEN Return([payload |-> json, err |-> Undefined], read,
                   LogResponse(level, req, rsp, json, elapsed))
       ELSE LET err == ParseFailure(json)
            IN Return(ErrorReturn(json, CreateTwintagError(Arr(<<err>>))),
                      read,
                      LogError(level, req, rsp, "[object Object]", elapsed))

\* fetch resolves with a response and the call classifies it
FetchResolves ==
    \E rsp \in Responses :
        LET c == Classify(logLevel, request, rsp, call.skipParse, now - start)
        IN /\ pc = "sending"
           /\ ~request.locked
           /\ pc' = c.pc
           /\ response' = c.response
           /\ result' = c.result
           /\ thrown' = c.thrown
           /\ log' = log \o c.entries
           /\ UNCHANGED <<token, logLevel, now, start, call, args, request,
                          setLevel>>
           /\ UNCHANGED others

\* FetchRejects as it would be if the catch turned the failure into a
\* returned error
FetchRejectsSwallowed ==
    /\ pc = "sending"
    /\ pc' = "returned"
    /\ result' = ErrorReturn(Undefined, CreateTwintagError(Undefined))
    /\ log' = log
    /\ UNCHANGED <<token, logLevel, now, start, call, args, request,
                   response, thrown, setLevel>>
    /\ UNCHANGED others

\* fetch rejects: the network fails, or the request's body is locked by the
\* tee of logRequest; the catch of client.ts:190-193 logs and rethrows
FetchRejects ==
    LET e == IF request.locked THEN UnusableBody ELSE NetworkError
    IN /\ pc = "sending"
       /\ pc' = "thrown"
       /\ thrown' = e
       /\ log' = log \o LogError(logLevel, request, Null, ErrorText(e),
                                 now - start)
       /\ UNCHANGED <<token, logLevel, now, start, call, args, request,
                      response, result, setLevel>>
       /\ UNCHANGED others

\* the caller takes the outcome; the client is ready for the next call
Finish ==
    /\ pc \in {"returned", "thrown"}
    /\ pc' = "idle"
    /\ call' = None
    /\ args' = None
    /\ request' = None
    /\ response' = None
    /\ result' = None
    /\ thrown' = None
    /\ log' = <<>>
    /\ UNCHANGED <<token, logLevel, now, start, setLevel>>
    /\ UNCHANGED others

\* a second call with the RequestInit object of the call that just ended,
\* as the first call left it: do has put its own Headers object in
\* args.headers (client.ts:136, 143) and put / post have set args.body
\* (client.ts:219-221, 236-238)
CallAgain ==
    \E value \in Values :
        /\ pc \in {"returned", "thrown"}
        /\ call.op \in {"get", "put"}
        /\ ~HeadersHas(HeadersNew(call.args.headers), "X-Client-Name")
        /\ Do(call.op, Path,
              IF call.op = "put" THEN WithBody(args, value) ELSE args,
              FALSE, call.skipAuth,
              IF call.op = "put" THEN value ELSE Undefined, args)

\* SetToken as it would be if the request in flight took its Authorization
\* header from the token at the time it is sent
SetTokenReachingRequest ==
    \E t \in Tokens :
        /\ pc \in {"idle", "sending"}
        /\ token' = t
        /\ request' =
              IF pc = "sending"
              THEN [request EXCEPT
                      !.headers =
                          NewRequest(Path,
                                     [args EXCEPT
                                        !.headers = AnalyticsHeaders(
                                            AuthHeaders(call.args.headers, t,
                                                        call.skipAuth))]
                                    ).headers]
              ELSE request
        /\ UNCHANGED <<logLevel, now, start, pc, call, args,
                       response, result, thrown, log, setLevel>>
        /\ UNCHANGED others

\* client.token = t
SetToken ==
    \E t \in Tokens :
        /\ pc \in {"idle", "sending"}
        /\ token' = t
        /\ UNCHANGED <<logLevel, now, start, pc, call, args, request,
                       response, result, thrown, log, setLevel>>
        /\ UNCHANGED others

\* what reading environment.logLevel gives: the class declares the
\* accessor with `set` only (environment.ts:58-60), so the read finds no
\* getter and gives undefined whatever _logLevel holds
EnvironmentLogLevelRead(level) == Undefined

\* what setLogLevel returns: sdk.ts:50 and 52
SetLevelResult(level) ==
    LET prev == EnvironmentLogLevelRead(level)
    IN IF prev = Undefined THEN "none" ELSE prev.s

\* setLogLevel(l), between calls: sdk.ts:49-53
SetLogLevel ==
    \E l \in LogLevels :
        /\ pc = "idle"
        /\ logLevel' = l
        /\ setLevel' = [before |-> logLevel, level |-> l,
                        returned |-> SetLevelResult(logLevel)]
        /\ UNCHANGED <<token, now, start, pc, call, args, request, response,
                       result, thrown, log>>
        /\ UNCHANGED others

\* time passes
Tick ==
    /\ now < MaxClock
    /\ now' = now + 1
    /\ UNCHANGED <<token, logLevel, start, pc, call, args, request, response,
                   result, thrown, log, setLevel>>
    /\ UNCHANGED others

Next ==
    \/ Get
    \/ Put
    \/ Post
    \/ Delete
    \/ DoDirect
    \/ FetchResolves
    \/ FetchRejects
    \/ Finish
    \/ SetToken
    \/ SetLogLevel
    \/ Tick

Spec == Init /\ [][Next]_vars

\* the client when a caller passes the same RequestInit object to two
\* calls in a row
ReuseNext ==
    \/ Get
    \/ Put
    \/ CallAgain
    \/ FetchResolves
    \/ FetchRejects
    \/ Finish
    \/ SetToken

SpecReuse == Init /\ [][ReuseNext]_vars

----------------------------------------------------------------------------
(* The claims. *)

\* the caller's own headers carry an Authorization header
CallerGaveAuthorization ==
    HeadersHas(HeadersNew(call.args.headers), "Authorization")

\* a response came back with a status outside 200..299
NonOkResponse == response.kind = "response" /\ ~Ok(response.status)

\* a response came back with a status in 200..299
OkResponse == response.kind = "response" /\ Ok(response.status)

\* what decoding the body of the response gives
Decoded == ResponseJson(response)

\* C1: for every call whose caller supplied no Authorization header, the
\* request built carries Authorization = 'Bearer ' + token exactly when the
\* client has a token (a non-empty string, as the code tests it) and
\* skipAuth is false, and no Authorization header otherwise; in every case
\* it carries X-Client-Name 'twintag.js' and X-Client-Version VERSION.
C1_HeaderInvariants ==
    (request.kind = "request" /\ ~CallerGaveAuthorization) =>
        /\ IF Truthy(call.token) /\ ~call.skipAuth
           THEN /\ HeadersHas(request.headers, "Authorization")
                /\ HeadersGet(request.headers, "Authorization")
                       = "Bearer " \o call.token.s
           ELSE ~HeadersHas(request.headers, "Authorization")
        /\ HeadersHas(request.headers, "X-Client-Name")
        /\ HeadersGet(request.headers, "X-Client-Name") = "twintag.js"
        /\ HeadersHas(request.headers, "X-Client-Version")
        /\ HeadersGet(request.headers, "X-Client-Version") = VERSION

\* C1 witness: a call with token 'abc' and skipAuth on is in flight, without
\* Authorization but with both client headers
C1_Witness ==
    /\ pc = "sending"
    /\ ~CallerGaveAuthorization
    /\ call.token = Str("abc")
    /\ call.skipAuth
    /\ ~HeadersHas(request.headers, "Authorization")
    /\ HeadersGet(request.headers, "X-Client-Name") = "twintag.js"

\* C2 (as claimed): a non-2xx response whose body is a JSON array with a
\* structured entry gives an error whose message is that entry's detail and
\* whose entries list is the server's array.
C2_ArrayBodyGivesDetail ==
    (pc \in {"returned", "thrown"} /\ NonOkResponse
     /\ Decoded.kind = "array" /\ Len(Decoded.items) > 0) =>
        /\ pc = "returned"
        /\ result.err.kind = "TwintagError"
        /\ result.err.message = Prop(Decoded.items[1], "detail").s
        /\ result.err.errors = Decoded

\* C3 (as claimed): a non-2xx response whose body is empty or not JSON makes
\* the call return an error with the generic fallback message; it does
\* not throw.
C3_UndecodableErrorBodyReturnsFallback ==
    (pc \in {"returned", "thrown"} /\ NonOkResponse
     /\ Decoded.kind = "exception") =>
        /\ pc = "returned"
        /\ result.err.kind = "TwintagError"
        /\ result.err.message = "Failed to perform the request"

\* C4 (as claimed): a non-2xx response with a JSON-decodable body makes the
\* call return the empty object with a non-none error, whatever skipParse is.
C4_NonOkReturnsEmptyPayloadAndError ==
    (pc \in {"returned", "thrown"} /\ NonOkResponse
     /\ Decoded.kind # "exception") =>
        /\ pc = "returned"
        /\ result.payload = EmptyObject
        /\ result.err.kind = "TwintagError"

\* C5: a 2xx response whose body is not valid JSON, with skipParse false,
\* makes the call return (it does not throw) the empty object with an error
\* whose entry has the title 'failed to parse response' and a detail that
\* holds the text of the decode error.
C5_ParseFailureIsReturned ==
    (pc \in {"returned", "thrown"} /\ OkResponse /\ ~call.skipParse
     /\ Decoded.kind = "exception") =>
        /\ pc = "returned"
        /\ result.payload = EmptyObject
        /\ result.err.kind = "TwintagError"
        /\ result.err.errors.kind = "array"
        /\ Len(result.err.errors.items) = 1
        /\ Prop(result.err.errors.items[1], "title")
               = Str("failed to parse response")
        /\ Prop(result.err.errors.items[1], "detail")
               = Str("something went wrong when parsing response; "
                     \o Decoded.name \o ": " \o Decoded.message)

\* C5 witness: a parsed call returned an error for a 200 with an HTML body
C5_Witness ==
    /\ pc = "returned"
    /\ response.status = 200
    /\ ~call.skipParse
    /\ response.body.kind = "stream"
    /\ response.body.bytes = TextNotJson
    /\ result.err.kind = "TwintagError"
    /\ Prop(result.err.errors.items[1], "detail")
           = Str("something went wrong when parsing response; "
                 \o "SyntaxError: Unexpected token < in JSON")

\* C6: a 2xx response with skipParse true makes the call return no error
\* and, without a body, the empty object, or else the response's own body
\* stream, of which no byte has been read.
C6_RawPassthrough ==
    (pc \in {"returned", "thrown"} /\ OkResponse /\ call.skipParse) =>
        /\ pc = "returned"
        /\ result.err = Undefined
        /\ IF response.body.kind = "null"
           THEN result.payload = EmptyObject
           ELSE /\ result.payload.kind = "stream"
                /\ result.payload.bytes = response.body.bytes
                /\ ~result.payload.disturbed
                /\ ~response.body.disturbed

\* C6 witness: a raw call returned the untouched stream of a 200 body
C6_Witness ==
    /\ pc = "returned"
    /\ call.op = "do"
    /\ call.skipParse
    /\ response.status = 200
    /\ result.payload = Stream(TextObjA, FALSE)
    /\ result.err = Undefined

\* the payload is more than the empty object, null or undefined
Usable(payload) == payload \notin {EmptyObject, Null, Undefined}

\* C7 (as claimed): for every call that returns, exactly one of {the payload
\* is usable, the error is non-none} holds.
C7_ExactlyOneOfPayloadAndError ==
    pc = "returned" =>
        (Usable(result.payload) /\ result.err = Undefined)
        \/ (~Usable(result.payload) /\ result.err # Undefined)

\* C7 (amended): for every call that returns, a non-none error comes with
\* the empty object as payload; a non-2xx response always gives an error; a
\* 2xx response in parsed mode gives an error or else exactly the decoded
\* body, which is null or an empty object when the body says so.
C7_ErrorExcludesPayload ==
    pc = "returned" =>
        /\ result.err # Undefined =>
               (result.err.kind = "TwintagError"
                /\ result.payload = EmptyObject)
        /\ NonOkResponse => result.err # Undefined
        /\ (OkResponse /\ ~call.skipParse /\ result.err = Undefined) =>
               (Decoded.kind # "exception" /\ result.payload = Decoded)

\* C7 witness: a parsed call returned null and no error for a 200 'null'
C7_Witness ==
    /\ pc = "returned"
    /\ response.status = 200
    /\ ~call.skipParse
    /\ response.body.kind = "stream"
    /\ response.body.bytes = TextNull
    /\ result.payload = Null
    /\ result.err = Undefined

\* the console entries written by logError
ErrorEntries == SelectSeq(log, LAMBDA e : e.fn = "logError")

\* C8: when fetch fails before a response is there, the call throws that
\* same failure and returns no pair, for do and for get/put/post/delete
\* alike, and it has logged an error entry unless the level is none; a call
\* returns a pair only after a response.
C8_NetworkFailureRethrown ==
    /\ pc = "returned" => response.kind = "response"
    /\ (pc = "thrown" /\ request.kind = "request" /\ response = None) =>
           /\ thrown = IF request.locked THEN UnusableBody ELSE NetworkError
           /\ result = None
           /\ IF logLevel = "none" THEN log = <<>>
              ELSE /\ ErrorEntries # <<>>
                   /\ log[Len(log)].fn = "logError"

\* C8 witness: a get threw the network failure and logged it at 'single'
C8_Witness ==
    /\ pc = "thrown"
    /\ call.op = "get"
    /\ response = None
    /\ thrown = NetworkError
    /\ logLevel = "single"
    /\ Len(ErrorEntries) = 1

\* C9: for put and post, a structured value with args.body not set gives a
\* request body equal to JSON.stringify(value); a pre-set args.body (one
\* the code's test `!args.body` sees, so not the empty string) is sent
\* unchanged and the value is not serialized.
C9_PutPostBody ==
    (request.kind = "request" /\ call.op \in {"put", "post"}) =>
        /\ (call.args.body = Undefined
            /\ call.value.kind \in {"object", "array"}) =>
               (request.body.kind = "stream"
                /\ request.body.bytes = JsonStringify(call.value))
        /\ Truthy(call.args.body) =>
               (request.body.kind = "stream"
                /\ request.body.bytes = call.args.body.s)

\* C9 witness: a put of {a: 1} with a pre-set body sends the pre-set body,
\* and a post of {a: 1} without one would send '{"a":1}'
C9_Witness ==
    /\ pc = "sending"
    /\ call.op = "put"
    /\ call.value = ObjA
    /\ call.args.body = Str(TextPreset)
    /\ request.body.bytes = TextPreset
    /\ JsonStringify(ObjA) = TextObjA

\* C10: delete always calls do with skipParse true and get, put and post
\* with skipParse false; a non-2xx response is classified from the response
\* alone, the same for the four; a 2xx delete returns without decoding.
C10_DeleteAsymmetry ==
    pc # "idle" =>
        /\ call.op = "delete" => call.skipParse
        /\ call.op \in {"get", "put", "post"} => ~call.skipParse
        /\ (pc \in {"returned", "thrown"} /\ NonOkResponse) =>
               IF Decoded.kind = "exception" THEN thrown = Decoded
               ELSE IF CreateTwintagError(Decoded).kind = "exception"
               THEN thrown = CreateTwintagError(Decoded)
               ELSE result = [payload |-> EmptyObject,
                              err |-> CreateTwintagError(Decoded)]
        /\ (pc \in {"returned", "thrown"} /\ OkResponse
            /\ call.op = "delete") =>
               (pc = "returned" /\ result.err = Undefined
                /\ (response.body.kind = "stream" =>
                        ~response.body.disturbed))

\* C10 witness: a delete returned without error for a 200 whose body is not
\* JSON, the body unread
C10_Witness ==
    /\ pc = "returned"
    /\ call.op = "delete"
    /\ response.status = 200
    /\ response.body = Stream(TextNotJson, FALSE)
    /\ result.err = Undefined

----------------------------------------------------------------------------
(* Logging of the request body, and the caller's headers. *)

\* the content types the logging path means to show
LoggableTypes ==
    {"application/json", "application/graphql", "application/graphql+json"}

\* the request of the call in progress has a body of content type ct
RequestBodyOfType(ct) ==
    /\ request # None
    /\ request.body.kind = "stream"
    /\ HeadersHas(request.headers, "Content-Type")
    /\ HeadersGet(request.headers, "Content-Type") = ct

\* C12: at log level 'body', a request with an application/json body is
\* sent with the caller's bytes and its body is not left locked or
\* consumed by the logging, so the call never fails on an unusable body.
C12_TeeLeavesRequestSendable ==
    (logLevel = "body" /\ RequestBodyOfType("application/json"))
        => /\ ~request.locked
           /\ request.body = Stream(call.args.body.s, FALSE)
           /\ thrown # UnusableBody

\* C13: the request body is teed only at log level 'body' and only when the
\* request's Content-Type is application/json, application/graphql or
\* application/graphql+json.
C13_TeeOnlyForLoggableTypes ==
    (request # None /\ request.locked)
        => /\ logLevel = "body"
           /\ \E ct \in LoggableTypes : RequestBodyOfType(ct)

\* C19: every header the caller supplied in args.headers is still in the
\* outgoing request, name and value, next to the headers the client adds,
\* whether or not a token is set and whatever skipAuth is.
C19_CallerHeadersKept ==
    request # None
        => /\ \A i \in DOMAIN call.args.headers :
                \E j \in DOMAIN request.headers :
                    /\ request.headers[j].name
                           = LowerCase(call.args.headers[i].name)
                    /\ request.headers[j].value = call.args.headers[i].value
           /\ HeadersHas(request.headers, "X-Client-Name")
           /\ HeadersHas(request.headers, "X-Client-Version")

\* a call with a token whose caller gave its own headers: the client has
\* added Authorization and the analytics headers beside them
C19_Witness ==
    /\ request # None
    /\ Truthy(call.token) /\ ~call.skipAuth
    /\ Len(call.args.headers) = 2
    /\ HeadersGet(request.headers, "X-Trace") = "t1"
    /\ HeadersGet(request.headers, "Content-Type")
           = "application/octet-stream"
    /\ HeadersGet(request.headers, "Authorization") = "Bearer abc"
    /\ HeadersGet(request.headers, "X-Client-Name") = "twintag.js"

----------------------------------------------------------------------------
(* The log level. *)

\* C11: setLogLevel returns the level that was in force before the call;
\* the default level is 'none'.
C11_ReturnsPreviousLevel ==
    setLevel # None => setLevel.returned = setLevel.before

----------------------------------------------------------------------------
(* Overlapping calls on one client.  Client.do awaits fetch, so a second   *)
(* call can begin while the first is in flight; both use the one field     *)
(* Client.start.                                                           *)

MaxCalls == 2

Calls == 1 .. MaxCalls

\* the variables of the client machine that overlapping calls leave alone
callVars == <<token, pc, call, args, request, response, result, thrown,
              log, setLevel>>

IdleFlight ==
    [pc |-> "idle", begun |-> 0, ended |-> 0, request |-> None,
     entries |-> <<>>]

\* the responses and failures that end an overlapping call
FlightResponses == {NewResponse(200, Str(TextObjA)), NewResponse(204, None)}

ConcInit ==
    /\ token \in {Undefined, Str("abc")}
    /\ logLevel \in LogLevels
    /\ now = 0
    /\ start = 0
    /\ pc = "idle"
    /\ call = None
    /\ args = None
    /\ request = None
    /\ response = None
    /\ result = None
    /\ thrown = None
    /\ log = <<>>
    /\ setLevel = None
    /\ view = None
    /\ env = None
    /\ rec = None
    /\ flights = [i \in Calls |-> IdleFlight]
    /\ sdk = None
    /\ errs = None
    /\ bag = None

\* call i enters Client.do and reaches `await fetch(request)`:
\* client.ts:128-155
ConcDo(i) ==
    LET a == [headers |-> AnalyticsHeaders(AuthHeaders(<<>>, token, FALSE)),
              body |-> Undefined, method |-> "GET"]
        req == NewRequest(Path, a)
    IN /\ flights[i].pc = "idle"
       /\ start' = now
       /\ flights' = [flights EXCEPT ![i] =
                        [pc |-> "sending", begun |-> now, ended |-> 0,
                         request |-> req,
                         entries |-> LogRequest(logLevel, req).entries]]
       /\ UNCHANGED <<logLevel, now, callVars, sdk, errs, bag,
                   view, env, rec>>

\* fetch of call i resolves; the call logs the response with
\* Date.now() - this.start: client.ts:74-76, 157-189
ConcFetchResolves(i) ==
    \E rsp \in FlightResponses :
        LET c == Classify(logLevel, flights[i].request, rsp, FALSE,
                          now - start)
        IN /\ flights[i].pc = "sending"
           /\ flights' = [flights EXCEPT ![i].pc = "done",
                                         ![i].ended = now,
                                         ![i].entries = @ \o c.entries]
           /\ UNCHANGED <<logLevel, now, start, callVars, sdk, errs, bag,
                   view, env, rec>>

\* fetch of call i rejects; the call logs the error with
\* Date.now() - this.start: client.ts:96-98, 190-193
ConcFetchRejects(i) ==
    /\ flights[i].pc = "sending"
    /\ flights' = [flights EXCEPT
                     ![i].pc = "done",
                     ![i].ended = now,
                     ![i].entries =
                         @ \o LogError(logLevel, flights[i].request, Null,
                                       ErrorText(NetworkError), now - start)]
    /\ UNCHANGED <<logLevel, now, start, callVars, sdk, errs, bag,
                   view, env, rec>>

\* the caller of call i takes its outcome
ConcFinish(i) ==
    /\ flights[i].pc = "done"
    /\ flights' = [flights EXCEPT ![i] = IdleFlight]
    /\ UNCHANGED <<logLevel, now, start, callVars, sdk, errs, bag,
                   view, env, rec>>

\* time passes
ConcTick ==
    /\ now < MaxClock
    /\ now' = now + 1
    /\ UNCHANGED <<logLevel, start, callVars, flights, sdk, errs,
                   bag, view, env, rec>>

ConcNext ==
    \/ \E i \in Calls : ConcDo(i)
    \/ \E i \in Calls : ConcFetchResolves(i)
    \/ \E i \in Calls : ConcFetchRejects(i)
    \/ \E i \in Calls : ConcFinish(i)
    \/ ConcTick

SpecConcurrent == ConcInit /\ [][ConcNext]_vars

\* C14: whatever the interleaving of the calls on one client, the elapsed
\* time each call logs is the time since that call's own start.
C14_ElapsedFromOwnStart ==
    \A i \in Calls :
        flights[i].pc = "done"
            => \A k \in DOMAIN flights[i].entries :
                   "elapsed" \in DOMAIN flights[i].entries[k]
                       => flights[i].entries[k].elapsed
                              = flights[i].ended - flights[i].begun

----------------------------------------------------------------------------
(* The wrapping error: construction and setMessage.                        *)

MaxOverwrites == 2

\* the arguments TwintagError is constructed with: the messages, entries
\* and names CreateTwintagError passes (client.ts:260-263), and none
ErrMessages == {Undefined, Str("field X invalid"),
                Str("Failed to perform the request")}
ErrEntries == {Undefined, Arr(<<>>), Arr(<<Entry422>>), Entry422}
ErrNames == {Undefined, Str(""), Str("Bad"), Str("Twintag Error")}

\* the messages call sites overwrite with (view.ts:185, 253, 433)
CallSiteMessages ==
    {"failed to get twintag data", "failed to start upload file to twintag",
     "failed to delete file from twintag"}

ErrInit ==
    /\ token = Undefined
    /\ logLevel = "none"
    /\ now = 0
    /\ start = 0
    /\ pc = "idle"
    /\ call = None
    /\ args = None
    /\ request = None
    /\ response = None
    /\ result = None
    /\ thrown = None
    /\ log = <<>>
    /\ setLevel = None
    /\ view = None
    /\ env = None
    /\ rec = None
    /\ flights = None
    /\ sdk = None
    /\ errs = None
    /\ bag = None

\* new TwintagError(message, errors, name): error.model.ts:7-12
ErrConstruct ==
    \E m \in ErrMessages, es \in ErrEntries, n \in ErrNames :
        /\ errs = None
        /\ errs' = [kind |-> "error",
                    given |-> [message |-> m, errors |-> es, name |-> n],
                    built |-> TwintagError(m, es, n),
                    err |-> TwintagError(m, es, n),
                    last |-> "",
                    overwrites |-> 0]
        /\ UNCHANGED <<clientVars, flights, sdk, bag, view, env, rec>>

\* err.setMessage(m), as the call sites do on the error they received
ErrSetMessage ==
    \E m \in CallSiteMessages :
        /\ errs # None
        /\ errs.overwrites < MaxOverwrites
        /\ errs' = [errs EXCEPT !.err = SetMessage(@, m),
                                !.last = m,
                                !.overwrites = @ + 1]
        /\ UNCHANGED <<clientVars, flights, sdk, bag, view, env, rec>>

\* the error is dropped
ErrForget ==
    /\ errs # None
    /\ errs' = None
    /\ UNCHANGED <<clientVars, flights, sdk, bag, view, env, rec>>

ErrNext == ErrConstruct \/ ErrSetMessage \/ ErrForget

SpecError == ErrInit /\ [][ErrNext]_vars

\* C17: setMessage changes the message and nothing else: after any number
\* of overwrites the errors list, the name and the stack are those the
\* error was built with and the message is the last one set; an error
\* built without a name has name '' and one built without entries has an
\* empty errors list.
C17_SetMessageChangesOnlyMessage ==
    errs # None
        => /\ errs.err.errors = errs.built.errors
           /\ errs.err.name = errs.built.name
           /\ errs.err.stack = errs.built.stack
           /\ errs.overwrites > 0 => errs.err.message = errs.last
           /\ errs.overwrites = 0 => errs.err = errs.built
           /\ errs.given.name = Undefined => errs.err.name = Str("")
           /\ errs.given.errors = Undefined => errs.err.errors = Arr(<<>>)

\* an error built with one entry and no name, its message overwritten
\* twice
C17_Witness ==
    /\ errs # None
    /\ errs.overwrites = MaxOverwrites
    /\ errs.given.name = Undefined
    /\ errs.given.errors = Arr(<<Entry422>>)
    /\ errs.err.errors = Arr(<<Entry422>>)
    /\ errs.err.name = Str("")
    /\ errs.err.message # errs.built.message

----------------------------------------------------------------------------
(* The collaborators of the client: the operations of View, Folder,        *)
(* FileUploader and StructuredObject that send requests.  Each step of an  *)
(* operation runs Client.do to its end (Exchange) or calls fetch itself,   *)
(* and then reacts to the outcome as the operation's code does.            *)

MaxLanguages == 2

\* the answers of the server to a collaborator's request, and the failure
\* of the network
Nets ==
    {NewResponse(200, Str(TextObjA)), NewResponse(200, Str(TextNotJson)),
     NewResponse(204, None), NewResponse(422, Str(TextErrorsObject)),
     NetworkError}

\* the bytes of the File that is uploaded
FileBytes == "file"

IdleSdk ==
    [op |-> "idle", step |-> 0, end |-> "idle", err |-> None, value |-> None,
     wire |-> <<>>, streams |-> <<>>, got |-> <<>>]

\* what has become of a response's body when Client.do is over: there is
\* none, json() has read it to the end, or it is still open
StreamFate(rsp) ==
    IF rsp.kind # "response" \/ rsp.body.kind = "null" THEN "none"
    ELSE IF rsp.body.disturbed THEN "drained"
    ELSE "open"

\* one call of the client, from Client.do's entry to its return or throw:
\* client.ts:122-194
Exchange(method, headers, body, skipParse, skipAuth, net) ==
    LET a == [headers |-> AnalyticsHeaders(AuthHeaders(headers, token,
                                                       skipAuth)),
              body |-> body, method |-> method]
        req == NewRequest(Path, a)
    IN IF net.kind = "exception"
       THEN [request |-> req, pc |-> "thrown", thrown |-> net,
             result |-> None, fate |-> "none", raw |-> skipParse]
       ELSE LET c == Classify(logLevel, req, net, skipParse, 0)
            IN [request |-> req, pc |-> c.pc, thrown |-> c.thrown,
                result |-> c.result, fate |-> StreamFate(c.response),
                raw |-> skipParse]

\* the operation s after the exchange x, the open stream (if any) having
\* met the fate whenOpen
Sent(s, x, whenOpen) ==
    [s EXCEPT
       !.wire = Append(@, [via |-> "Client.do",
                           method |-> x.request.method, raw |-> x.raw,
                           headers |-> x.request.headers]),
       !.streams = Append(@, IF x.fate = "open" THEN whenOpen ELSE x.fate),
       !.got = Append(@, IF x.pc = "returned" THEN x.result.err ELSE None)]

Throws(s, e) == [s EXCEPT !.end = "thrown", !.err = e]
Returns(s, v) == [s EXCEPT !.end = "returned", !.value = v]
Begins(op) == [IdleSdk EXCEPT !.op = op, !.end = "running"]

\* as ThrowsOnError, but the error only gets its message and the operation
\* goes on
ThrowsOnErrorGoingOn(s, x, m, onward) ==
    IF x.pc = "thrown" THEN Throws(s, x.thrown)
    ELSE IF Truthy(x.result.err)
    THEN [onward EXCEPT !.err = SetMessage(x.result.err, m)]
    ELSE onward

\* `if (err) { err.setMessage(m); throw err }` after the exchange x, and
\* otherwise the operation goes on as `onward`.  An exception thrown by
\* the client passes through: no collaborator catches.
ThrowsOnError(s, x, m, onward) ==
    IF x.pc = "thrown" THEN Throws(s, x.thrown)
    ELSE IF Truthy(x.result.err)
    THEN Throws(s, SetMessage(x.result.err, m))
    ELSE onward

SdkInit ==
    /\ token \in {Undefined, Str("abc")}
    /\ logLevel = "none"
    /\ now = 0
    /\ start = 0
    /\ pc = "idle"
    /\ call = None
    /\ args = None
    /\ request = None
    /\ response = None
    /\ result = None
    /\ thrown = None
    /\ log = <<>>
    /\ setLevel = None
    /\ view = None
    /\ env = None
    /\ rec = None
    /\ flights = None
    /\ sdk = IdleSdk
    /\ errs = None
    /\ bag = None

\* View.data: view.ts:171-190
ViewData ==
    \E net \in Nets :
      \E x \in {Exchange("GET", <<>>, Undefined, FALSE, FALSE, net)} :
        \E s \in {Sent(Begins("View.data"), x, "open")} :
           /\ sdk.op = "idle"
           /\ sdk' = ThrowsOnError(s, x, "failed to get twintag data",
                                   Returns(s, x.result.payload))
           /\ UNCHANGED <<clientVars, flights, errs, bag, view, env, rec>>

\* View.download: view.ts:315-332; the stream goes to the caller
ViewDownload ==
    \E net \in Nets :
      \E x \in {Exchange("get",
                          <<[name |-> "Content-Type",
                             value |-> "application/octet-stream"]>>,
                          Undefined, TRUE, TRUE, net)} :
        \E s \in {Sent(Begins("View.download"), x, "returned")} :
           /\ sdk.op = "idle"
           /\ Truthy(token)
           /\ sdk' = ThrowsOnError(s, x,
                                   "failed to download file from twintag",
                                   Returns(s, x.result.payload))
           /\ UNCHANGED <<clientVars, flights, errs, bag, view, env, rec>>

\* View.upload, the start request: view.ts:236-254
ViewUploadStart ==
    \E net \in Nets :
      \E x \in {Exchange("PUT", <<>>, WithBody([body |-> Undefined], ObjA).body,
                          FALSE, FALSE, net)} :
        \E s \in {Sent(Begins("View.upload"), x, "open")} :
           /\ sdk.op = "idle"
           /\ Truthy(token)
           /\ sdk' = ThrowsOnError(s, x,
                                   "failed to start upload file to twintag",
                                   [s EXCEPT !.step = 1,
                                             !.value = x.result.payload])
           /\ UNCHANGED <<clientVars, flights, errs, bag, view, env, rec>>

\* View.upload, the upload itself: view.ts:256-261.  `const [, uploadErr]`
\* drops the payload, the response's stream in raw mode.
ViewUploadSend ==
    \E net \in Nets :
      \E x \in {Exchange("PUT", <<>>, Str(FileBytes), TRUE, TRUE, net)} :
        \E s \in {Sent(sdk, x, "dropped")} :
           /\ sdk.op = "View.upload" /\ sdk.end = "running" /\ sdk.step = 1
           /\ sdk' = ThrowsOnError(s, x, "failed to upload file to twintag",
                                   [s EXCEPT !.step = 2])
           /\ UNCHANGED <<clientVars, flights, errs, bag, view, env, rec>>

\* View.upload, the end request: view.ts:263-279
ViewUploadEnd ==
    \E net \in Nets :
      \E x \in {Exchange("PUT", <<>>, Str(TextEmptyObject), TRUE, FALSE, net)} :
        \E s \in {Sent(sdk, x, "dropped")} :
           /\ sdk.op = "View.upload" /\ sdk.end = "running" /\ sdk.step = 2
           /\ sdk' = ThrowsOnError(
                        s, x, "failed to complete the file upload to twintag",
                        Returns(s, sdk.value))
           /\ UNCHANGED <<clientVars, flights, errs, bag, view, env, rec>>

\* View.delete: view.ts:426-436, through Client.delete (raw mode)
ViewDelete ==
    \E net \in Nets :
      \E x \in {Exchange("delete", <<>>,
                          WithBody([body |-> Undefined],
                                   Arr(<<Str("q1")>>)).body,
                          TRUE, FALSE, net)} :
        \E s \in {Sent(Begins("View.delete"), x, "dropped")} :
           /\ sdk.op = "idle"
           /\ Truthy(token)
           /\ sdk' = ThrowsOnError(s, x, "failed to delete file from twintag",
                                   Returns(s, Undefined))
           /\ UNCHANGED <<clientVars, flights, errs, bag, view, env, rec>>

\* Folder.readAsReadableStream of a subfolder, the listing of downloadUrl:
\* folder.ts:153 and 200-207, View.list view.ts:520-532
FolderReadList ==
    \E net \in Nets, found \in BOOLEAN :
      \E x \in {Exchange("GET", <<>>, Undefined, FALSE, FALSE, net)} :
        \E s \in {Sent(Begins("Folder.readAsReadableStream"), x, "open")} :
           /\ sdk.op = "idle"
           /\ Truthy(token)
           /\ sdk' = ThrowsOnError(
                        s, x, "failed to get list of files from twintag",
                        IF found THEN [s EXCEPT !.step = 1]
                        ELSE Throws(s, Exception("Error",
                                                 "Not Found; file 'f'")))
           /\ UNCHANGED <<clientVars, flights, errs, bag, view, env, rec>>

\* Folder.readAsReadableStream of a subfolder, `await fetch(url)` and what
\* follows: folder.ts:154-167
FolderReadFetch ==
    \E net \in Nets :
        LET sent == [sdk EXCEPT
                       !.wire = Append(@, [via |-> "fetch",
                                           method |-> "GET", raw |-> TRUE,
                                           headers |-> HeadersNew(<<>>)])]
            With(fate) == [sent EXCEPT !.streams = Append(@, fate),
                                       !.got = Append(@, None)]
        IN /\ sdk.op = "Folder.readAsReadableStream"
           /\ sdk.end = "running" /\ sdk.step = 1
           /\ sdk' =
                IF net.kind = "exception" THEN Throws(With("none"), net)
                ELSE IF net.status = 200
                THEN IF net.body.kind # "null"
                     THEN Returns(With("returned"), net.body)
                     ELSE Throws(With("none"),
                                 Exception("Error", "missing body"))
                ELSE Throws(With(IF net.body.kind # "null" THEN "cancelled"
                                 ELSE "none"),
                            Exception("Error",
                                      "name 'f' status "
                                      \o NumText(net.status)))
           /\ UNCHANGED <<clientVars, flights, errs, bag, view, env, rec>>

\* FileUploader.uploadToS3, awaited by uploadFile: part_001:55-76.  The
\* pair do returns is not looked at.
UploadToS3 ==
    \E net \in Nets :
      \E x \in {Exchange("put", <<>>, Str(FileBytes), TRUE, TRUE, net)} :
        \E s \in {Sent(Begins("FileUploader.Upload"), x, "dropped")} :
           /\ sdk.op = "idle"
           /\ sdk' = IF x.pc = "thrown" THEN Throws(s, x.thrown)
                     ELSE [s EXCEPT !.step = 1]
           /\ UNCHANGED <<clientVars, flights, errs, bag, view, env, rec>>

\* FileUploader.endUpload, awaited by uploadFile: part_001:57 and 86-96.
\* The pair put returns is not looked at.
EndUpload ==
    \E net \in Nets :
      \E x \in {Exchange("PUT", <<>>, WithBody([body |-> Undefined], ObjId).body,
                          FALSE, FALSE, net)} :
        \E s \in {Sent(sdk, x, "open")} :
           /\ sdk.op = "FileUploader.Upload"
           /\ sdk.end = "running" /\ sdk.step = 1
           /\ sdk' = IF x.pc = "thrown" THEN Throws(s, x.thrown)
                     ELSE Returns(s, Undefined)
           /\ UNCHANGED <<clientVars, flights, errs, bag, view, env, rec>>

\* StructuredObject.addTranslationAttribute, what follows the put of one
\* turn of its loop: part_008:266-273.  The error gets its message and is
\* not thrown; `if (resp)` is true of the empty payload `{}`.
AfterTranslationPut(s, resp, err) ==
    [s EXCEPT
       !.err = IF Truthy(err)
               THEN SetMessage(err,
                               "failed to add translation attribute c: "
                               \o err.message)
               ELSE s.err,
       !.value = IF Truthy(resp) THEN Arr(Append(s.value.items, resp))
                 ELSE s.value]

\* one turn of the loop of addTranslationAttribute, and the return after
\* the last: part_008:255-275
TranslationTurn(s, x) ==
    IF x.pc = "thrown" THEN Throws(s, x.thrown)
    ELSE IF s.step = MaxLanguages
    THEN Returns(s, AfterTranslationPut(s, x.result.payload,
                                        x.result.err).value)
    ELSE AfterTranslationPut(s, x.result.payload, x.result.err)

\* StructuredObject.addTranslationAttribute: part_008:246-275
AddTranslationAttribute ==
    \E net \in Nets :
      \E x \in {Exchange("PUT", <<>>, WithBody([body |-> Undefined], ObjA).body,
                         FALSE, FALSE, net)} :
        \E cur \in {IF sdk.op = "idle"
                     THEN [Begins("StructuredObject.addTranslationAttribute")
                             EXCEPT !.value = Arr(<<>>)]
                     ELSE sdk} :
          \E s \in {[Sent(cur, x, "open") EXCEPT !.step = cur.step + 1]} :
            /\ sdk.op \in {"idle", "StructuredObject.addTranslationAttribute"}
            /\ sdk.end \in {"idle", "running"}
            /\ sdk' = TranslationTurn(s, x)
            /\ UNCHANGED <<clientVars, flights, errs, bag, view, env,
                           rec>>

\* the caller takes the outcome of the operation
SdkFinish ==
    /\ sdk.end \in {"returned", "thrown"}
    /\ sdk' = IdleSdk
    /\ UNCHANGED <<clientVars, flights, errs, bag, view, env, rec>>

SdkNext ==
    \/ ViewData
    \/ ViewDownload
    \/ ViewUploadStart
    \/ ViewUploadSend
    \/ ViewUploadEnd
    \/ ViewDelete
    \/ FolderReadList
    \/ FolderReadFetch
    \/ UploadToS3
    \/ EndUpload
    \/ AddTranslationAttribute
    \/ SdkFinish

SpecSdk == SdkInit /\ [][SdkNext]_vars

\* C15: every request an SDK operation sends goes through Client.do, and
\* so carries X-Client-Name and X-Client-Version.
C15_EveryRequestThroughClient ==
    \A i \in DOMAIN sdk.wire :
        /\ sdk.wire[i].via = "Client.do"
        /\ HeadersHas(sdk.wire[i].headers, "X-Client-Name")
        /\ HeadersHas(sdk.wire[i].headers, "X-Client-Version")

\* C16: an operation that receives an error from the client overwrites its
\* message and throws it: the request that gave the error is the
\* operation's last, and the operation ends by throwing that error, its
\* entries unchanged.
C16_ErrorIsRewrappedAndThrown ==
    \A i \in DOMAIN sdk.got :
        Truthy(sdk.got[i])
            => /\ i = Len(sdk.got)
               /\ sdk.end = "thrown"
               /\ sdk.err.kind = "TwintagError"
               /\ sdk.err.errors = sdk.got[i].errors

\* C18: when an operation is over, every response it obtained has had its
\* body drained, cancelled, or handed to the operation's caller; none is
\* left open with nothing referring to it.
C18_NoStreamLeftOpen ==
    sdk.end \in {"returned", "thrown"}
        => \A i \in DOMAIN sdk.streams :
               sdk.streams[i] \in {"none", "drained", "cancelled", "returned"}

----------------------------------------------------------------------------
(* Folders: a bag's entries as the server lists them, and Folder.resolve.  *)

MaxEntries == 3

Names == {"a", "b"}

\* the FileQid the server gives the n-th entry of the bag
QidOf(n) == <<"q1", "q2", "q3">>[n]

\* the paths resolve is called with
Paths == {"", "/", "a", "/a", "/b", "/a/", "/a/a", "/a/b", "/b/a", "a/b"}

\* path.split("/")
Split(path) ==
    CASE path = "" -> <<"">>
      [] path = "/" -> <<"", "">>
      [] path = "a" -> <<"a">>
      [] path = "/a" -> <<"", "a">>
      [] path = "/b" -> <<"", "b">>
      [] path = "/a/" -> <<"", "a", "">>
      [] path = "/a/a" -> <<"", "a", "a">>
      [] path = "/a/b" -> <<"", "a", "b">>
      [] path = "/b/a" -> <<"", "b", "a">>
      [] path = "a/b" -> <<"a", "b">>

\* new Folder(twt, bag, name, folderQid): folder.ts:71-78
Folder(name, folderQid) ==
    [kind |-> "folder", name |-> name, folderQid |-> folderQid]

\* bag.list(qid), view.ts:520-532: the entries the server lists for the
\* folder qid.  For the root ('' gives the URL without a folder,
\* view.ts:204-213) the listing may hold the entries of subfolders too:
\* folder.ts:87, "this.bag.list('') also gives files in subfolders!"
BagList(qid) ==
    LET Listed(e) == e.Parent = qid \/ (bag.deep /\ qid = "")
    IN SelectSeq(bag.entries, Listed)

\* what `await this.bag.list(qid)` gives listItems: the array, or the object
\* a deleted bag answers with (folder.ts:86, "may return { is:..., state:
\* 'deleted'}")
BagListing(qid) ==
    IF bag.deleted THEN Obj(<<Field("state", Str("deleted"))>>)
    ELSE Arr(BagList(qid))

\* new FileInfo(fi): folder.ts:14-43
ConvertFileInfo(fi) ==
    [name |-> fi.Name,
     type |-> CASE fi.FileMode = "420" -> "file"
                [] fi.FileMode = "493" -> "folder"
                [] OTHER -> "unknown",
     FileQid |-> fi.FileQid, Parent |-> fi.Parent, FileMode |-> fi.FileMode]

\* Folder.#findFolderQidInParent: folder.ts:256-263
FindFolderQidInParent(parentQid, name) ==
    LET IsFolder(f) == f.FileMode = "493"
        Named(f) == f.Name = name
        hits == SelectSeq(SelectSeq(BagList(parentQid), IsFolder), Named)
    IN IF hits = <<>> THEN Null ELSE Str(hits[1].FileQid)

\* the loop of Folder.resolve: folder.ts:282-293
RECURSIVE ResolveParts(_, _, _)
ResolveParts(parts, folderQid, folderName) ==
    IF parts = <<>> THEN Folder(folderName, folderQid)
    ELSE LET found == FindFolderQidInParent(folderQid, Head(parts))
         IN IF found = Null THEN Null
            ELSE ResolveParts(Tail(parts), found.s, Head(parts))

\* Folder.resolve(path) on a folder whose bag exists: folder.ts:266-294
Resolve(path) ==
    IF path = "" THEN Exception("Error", "empty path")
    ELSE IF path = "/" THEN Folder("/", "")
    ELSE ResolveParts(Tail(Split(path)), "", "")

\* the folders of the bag a new entry can be put in: the root and every
\* folder there is
FolderQids ==
    {""} \cup {bag.entries[i].FileQid :
                 i \in {j \in DOMAIN bag.entries :
                          bag.entries[j].FileMode = "493"}}

\* the folder parent has no entry of that name yet
NameFree(parent, name) ==
    \A i \in DOMAIN bag.entries :
        ~(bag.entries[i].Parent = parent /\ bag.entries[i].Name = name)

FolderInit ==
    /\ token = Undefined
    /\ logLevel = "none"
    /\ now = 0
    /\ start = 0
    /\ pc = "idle"
    /\ call = None
    /\ args = None
    /\ request = None
    /\ response = None
    /\ result = None
    /\ thrown = None
    /\ log = <<>>
    /\ setLevel = None
    /\ view = None
    /\ env = None
    /\ rec = None
    /\ flights = None
    /\ sdk = None
    /\ errs = None
    /\ bag \in {[kind |-> "bag", deep |-> d, entries |-> <<>>, made |-> 0,
                  deleted |-> FALSE, res |-> None] :
                  d \in BOOLEAN}

\* Folder.createFolder(name) on the folder parent: folder.ts:296-306,
\* View.addFolder view.ts:540-557
CreateFolder ==
    \E parent \in FolderQids, name \in Names :
        /\ ~bag.deleted
        /\ bag.made < MaxEntries
        /\ NameFree(parent, name)
        /\ bag' = [bag EXCEPT
                     !.made = @ + 1,
                     !.entries = Append(@, [FileQid |-> QidOf(bag.made + 1),
                                            Parent |-> parent,
                                            Name |-> name,
                                            FileMode |-> "493"]),
                     !.res = None]
        /\ UNCHANGED <<clientVars, flights, sdk, errs, view, env, rec>>

\* Folder.writeFromJson(name, json) on the folder parent: folder.ts:247-249
WriteFromJson ==
    \E parent \in FolderQids, name \in Names :
        /\ ~bag.deleted
        /\ bag.made < MaxEntries
        /\ NameFree(parent, name)
        /\ bag' = [bag EXCEPT
                     !.made = @ + 1,
                     !.entries = Append(@, [FileQid |-> QidOf(bag.made + 1),
                                            Parent |-> parent,
                                            Name |-> name,
                                            FileMode |-> "420"]),
                     !.res = None]
        /\ UNCHANGED <<clientVars, flights, sdk, errs, view, env, rec>>

\* Folder.resolve(path): folder.ts:266-294
ResolvePath ==
    \E path \in Paths :
        /\ ~bag.deleted
        /\ bag' = [bag EXCEPT !.res = [kind |-> "resolved", path |-> path,
                                       result |-> Resolve(path)]]
        /\ UNCHANGED <<clientVars, flights, sdk, errs, view, env, rec>>

\* ListItems as it would be if the listing were not filtered by Parent
ListItemsUnfiltered(folderQid) ==
    LET list == BagListing(folderQid)
    IN IF list.kind = "array"
       THEN [i \in DOMAIN list.items |-> ConvertFileInfo(list.items[i])]
       ELSE <<>>

\* Folder.listItems: folder.ts:80-93
ListItems(folderQid) ==
    LET list == BagListing(folderQid)
        InFolder(f) == f.Parent = folderQid
        filtered == IF list.kind = "array" THEN SelectSeq(list.items, InFolder)
                    ELSE <<>>
    IN [i \in DOMAIN filtered |-> ConvertFileInfo(filtered[i])]

\* Folder.listFiles: folder.ts:95-98
ListFiles(folderQid) ==
    LET IsFile(f) == f.type = "file"
    IN SelectSeq(ListItems(folderQid), IsFile)

\* Folder.listFolders: folder.ts:100-103
ListFolders(folderQid) ==
    LET IsFolder(f) == f.type = "folder"
    IN SelectSeq(ListItems(folderQid), IsFolder)

\* bag.delete(fileInfo), view.ts:426-436: the server drops the entry; what
\* becomes of the entries inside a folder that is dropped is the server's
\* choice (cascade or not)
Dropped(entries, qid, cascade) ==
    LET Stays(e) == e.FileQid # qid /\ ~(cascade /\ e.Parent = qid)
    IN SelectSeq(entries, Stays)

\* Folder.removeFile(name) on the folder folderQid: folder.ts:131-140
RemoveFile ==
    \E folderQid \in FolderQids, name \in Names :
        LET Named(f) == f.name = name
            hits == SelectSeq(ListFiles(folderQid), Named)
        IN /\ bag' = [bag EXCEPT
                        !.entries = IF hits = <<>> THEN @
                                    ELSE Dropped(@, hits[1].FileQid, FALSE),
                        !.res = None]
           /\ UNCHANGED <<clientVars, flights, sdk, errs, view, env, rec>>

\* Folder.removeFolder(name) on the folder folderQid: folder.ts:308-314,
\* findFolderInfo folder.ts:111-115
RemoveFolder ==
    \E folderQid \in FolderQids, name \in Names, cascade \in BOOLEAN :
        LET Named(f) == f.name = name
            hits == SelectSeq(ListFolders(folderQid), Named)
        IN /\ bag' = [bag EXCEPT
                        !.entries = IF hits = <<>> THEN @
                                    ELSE Dropped(@, hits[1].FileQid, cascade),
                        !.res = None]
           /\ UNCHANGED <<clientVars, flights, sdk, errs, view, env, rec>>

\* listFiles() and listFolders() on the folder folderQid
ListFolder ==
    \E folderQid \in FolderQids :
        /\ bag' = [bag EXCEPT !.res = [kind |-> "listed",
                                       folderQid |-> folderQid,
                                       files |-> ListFiles(folderQid),
                                       folders |-> ListFolders(folderQid)]]
        /\ UNCHANGED <<clientVars, flights, sdk, errs, view, env, rec>>

\* the bag is deleted (folder_test.ts:29-31); from then on the listing is
\* an object, not an array (folder.ts:86)
DeleteBag ==
    /\ ~bag.deleted
    /\ bag' = [bag EXCEPT !.deleted = TRUE, !.res = None]
    /\ UNCHANGED <<clientVars, flights, sdk, errs, view, env, rec>>

FolderNext ==
    \/ CreateFolder
    \/ WriteFromJson
    \/ ResolvePath
    \/ RemoveFile
    \/ RemoveFolder
    \/ ListFolder
    \/ DeleteBag

SpecFolder == FolderInit /\ [][FolderNext]_vars

\* the folder named name that lies in the folder parentQid, if there is one
ChildFolder(parentQid, name) ==
    LET hits == {i \in DOMAIN bag.entries :
                    /\ bag.entries[i].Parent = parentQid
                    /\ bag.entries[i].FileMode = "493"
                    /\ bag.entries[i].Name = name}
    IN IF hits = {} THEN Null
       ELSE Str(bag.entries[CHOOSE i \in hits : TRUE].FileQid)

\* the folder reached from the folder folderQid by the segments parts,
\* each looked up inside the folder found for the one before
RECURSIVE Walk(_, _, _)
Walk(parts, folderQid, folderName) ==
    IF parts = <<>> THEN Folder(folderName, folderQid)
    ELSE IF ChildFolder(folderQid, Head(parts)) = Null THEN Null
    ELSE Walk(Tail(parts), ChildFolder(folderQid, Head(parts)).s,
              Head(parts))

\* C20: resolve throws for the empty path, gives the root folder for '/',
\* and otherwise gives the folder reached by looking each segment after
\* the first '/' up as a folder inside the folder found for the previous
\* segment, starting at the root, or null when a segment is not found; so
\* a folder created in the root is resolved by '/' + its name.
C20_ResolveWalksTheTree ==
    (bag.res # None /\ bag.res.kind = "resolved")
        => bag.res.result =
              IF bag.res.path = ""
              THEN Exception("Error", "empty path")
              ELSE IF bag.res.path = "/" THEN Folder("/", "")
              ELSE Walk(Tail(Split(bag.res.path)), "", "")

\* the FileQids of the entries of mode that lie in the folder folderQid
InFolderNow(folderQid, mode) ==
    {bag.entries[i].FileQid :
        i \in {j \in DOMAIN bag.entries :
                 /\ bag.entries[j].Parent = folderQid
                 /\ bag.entries[j].FileMode = mode}}

\* the FileQids of a list of FileInfo
QidsOf(list) == {list[i].FileQid : i \in DOMAIN list}

\* C21: listFiles gives one entry for each file that is in the folder now
\* and nothing else, listFolders one for each of its sub-folders and
\* nothing else, whatever writes, removals and folder creations went
\* before; both give [] when the listing is not an array.
C21_ListsWhatIsInTheFolder ==
    (bag.res # None /\ bag.res.kind = "listed")
        => IF bag.deleted
           THEN bag.res.files = <<>> /\ bag.res.folders = <<>>
           ELSE /\ QidsOf(bag.res.files) = InFolderNow(bag.res.folderQid, "420")
                /\ Len(bag.res.files)
                       = Cardinality(InFolderNow(bag.res.folderQid, "420"))
                /\ QidsOf(bag.res.folders)
                       = InFolderNow(bag.res.folderQid, "493")
                /\ Len(bag.res.folders)
                       = Cardinality(InFolderNow(bag.res.folderQid, "493"))
                /\ \A i \in DOMAIN bag.res.files :
                       bag.res.files[i].type = "file"
                /\ \A i \in DOMAIN bag.res.folders :
                       bag.res.folders[i].type = "folder"

\* the root is listed after three entries were made and one of them was
\* removed again, while a sub-folder holds a file and the server's listing
\* of the root holds the entries of sub-folders too
C21_Witness ==
    /\ bag.res # None /\ bag.res.kind = "listed"
    /\ bag.deep /\ ~bag.deleted
    /\ bag.res.folderQid = ""
    /\ bag.made = MaxEntries
    /\ bag.res.files = <<>>
    /\ Len(bag.res.folders) = 1
    /\ Len(bag.entries) = 2
    /\ \E i \in DOMAIN bag.entries :
          bag.entries[i].FileMode = "420" /\ bag.entries[i].Parent # ""

----------------------------------------------------------------------------
(* The token and the caller's RequestInit across calls; the token in the   *)
(* log.                                                                    *)

\* the values of the header name in the list headers, in order
ValuesOf(headers, name) ==
    LET Is(h) == h.name = LowerCase(name)
        hits == SelectSeq(headers, Is)
    IN [i \in DOMAIN hits |-> hits[i].value]

\* the response as fetch gave it, before anything read its body
Unread(rsp) ==
    IF rsp.body.kind = "null" THEN rsp
    ELSE [rsp EXCEPT !.body = Stream(rsp.body.bytes, FALSE)]

\* C25: the Authorization header of a request is the one built from the
\* token the client held when do was called; a change of the token while
\* the call is in flight changes neither the request nor the result, which
\* is the one the response alone determines.
C25_AuthorizationFixedAtCall ==
    (pc \in {"sending", "returned", "thrown"} /\ request # None)
        => /\ ValuesOf(request.headers, "Authorization")
                = ValuesOf(HeadersNew(AuthHeaders(call.args.headers,
                                                  call.token, call.skipAuth)),
                           "Authorization")
           /\ pc = "returned"
                => result = Classify(logLevel, request, Unread(response),
                                     call.skipParse, 0).result

\* a call that was started with a token has returned after the token was
\* cleared in flight: its request still carries the bearer value
C25_Witness ==
    /\ pc = "returned"
    /\ call.token = Str("abc") /\ ~call.skipAuth
    /\ token = Undefined
    /\ ValuesOf(request.headers, "Authorization") = <<"Bearer abc">>
    /\ result.err = Undefined

\* the call in progress was given the RequestInit object of an earlier call
SecondCall ==
    /\ call # None
    /\ HeadersHas(HeadersNew(call.args.headers), "X-Client-Name")

\* C26: when the same RequestInit object is passed to two calls in a row,
\* the second request carries one X-Client-Name value, one X-Client-Version
\* value and at most one Authorization value added by the client: what the
\* first call added is not carried into the second.
C26_HeadersNotAccumulated ==
    (SecondCall /\ request # None)
        => /\ ValuesOf(request.headers, "X-Client-Name") = <<"twintag.js">>
           /\ ValuesOf(request.headers, "X-Client-Version") = <<VERSION>>
           /\ Len(SelectSeq(ValuesOf(request.headers, "Authorization"),
                            LAMBDA v : v = "Bearer abc")) <= 1

\* needle occurs in hay, both sequences of characters
Contains(hay, needle) ==
    \E i \in 0 .. Len(hay) - Len(needle) :
        SubSeq(hay, i + 1, i + Len(needle)) = needle

\* C30: whatever the log level and the path, the text logged for an
\* Authorization header does not contain the complete bearer token.
C30_TokenNeverLoggedWhole ==
    (call # None /\ Truthy(call.token))
        => \A i \in DOMAIN log :
               "chars" \in DOMAIN log[i]
                   => ~Contains(log[i].chars, Chars(call.token.s))


----------------------------------------------------------------------------
(* The steps of an upload: View.upload and FileUploader.Upload.            *)

\* the message View.upload gives the error of its i-th request
UploadMessages ==
    <<"failed to start upload file to twintag",
      "failed to upload file to twintag",
      "failed to complete the file upload to twintag">>

\* the i-th request of the running operation returned an error
GotError(i) == i \in DOMAIN sdk.got /\ Truthy(sdk.got[i])

C28_EndOnlyAfterUploadSucceeded ==
    sdk.op = "FileUploader.Upload"
        => /\ GotError(1) => Len(sdk.wire) = 1 /\ sdk.end # "returned"
           /\ GotError(2) => sdk.end # "returned"


----------------------------------------------------------------------------
(* src/sdk/view.ts: the view's client, its cached data and the session     *)
(* token.  `token` is the token of the view's client (undefined while the  *)
(* view has no client); each task is one call of data(), of client(), or   *)
(* of an operation that awaits client() and then sends its request.        *)

MaxRequests == 3
MaxTasks == 2

\* the calls of the view that may be under way together
ViewTasks == 1 .. MaxTasks

\* a token given by the caller: a project's API key
ApiKey == Str("key")

\* the answers of the server to the request for the view's data, and the
\* failure of the network
ViewNets ==
    {NewResponse(200, Str(TextViewAbc)), NewResponse(200, Str(TextEmptyObject)),
     NewResponse(422, Str(TextErrorsObject)), NetworkError}

IdleTask ==
    [op |-> "idle", end |-> "idle", had |-> None, asked |-> FALSE,
     gave |-> None, skip |-> FALSE, err |-> None, value |-> None]

\* the headers of a request the view's client sends while its token is tok
ClientHeaders(skipAuth, tok) ==
    NewRequest(Path, [headers |-> AnalyticsHeaders(AuthHeaders(<<>>, tok,
                                                                skipAuth)),
                      body |-> Undefined, method |-> "GET"]).headers

\* the client's token when client() is over, as it would be if client()
\* never stored the authToken
TokenAfterKeeping(op, had, d, tok) == tok

\* the client's token when the call is over: client() stores data.authToken
\* when it found no token on entry, data() stores nothing.
\* view.ts:161-164, 197-202
TokenAfter(op, had, d, tok) ==
    IF op = "data" \/ Truthy(had) THEN tok ELSE Prop(d, "authToken")

\* the request of an operation, sent once client() has returned:
\* view.ts:325-326 (download, skipAuth) and 524-525 (list)
SendCall(v, skip, tok) ==
    [v EXCEPT !.wire = Append(@, [kind |-> "call", skipAuth |-> skip,
                                  headers |-> ClientHeaders(skip, tok),
                                  stored |-> v.stored,
                                  replaced |-> v.replaced])]

\* client.get(this.viewURL()) up to `await fetch`: view.ts:177-182
SendDataRequest(v, tok) ==
    [v EXCEPT !.client = TRUE,
              !.fetches = @ + 1,
              !.wire = Append(@, [kind |-> "data", skipAuth |-> FALSE,
                                  headers |-> ClientHeaders(FALSE, tok),
                                  stored |-> v.stored,
                                  replaced |-> v.replaced])]

\* the view when task t, a call of kind op that found the token `had` on
\* entry, has the data d in hand: view.ts:163-165 and 173-175, 189-190
Complete(v, t, op, skip, had, asked, d, tok) ==
    LET tok2 == TokenAfter(op, had, d, tok)
        v1 == IF op # "data" /\ ~Truthy(had)
              THEN [v EXCEPT !.stored = tok2, !.replaced = FALSE]
              ELSE v
        v2 == IF op = "call" THEN SendCall(v1, skip, tok2) ELSE v1
    IN [v2 EXCEPT !.tasks[t] =
            [op |-> op, end |-> "returned", had |-> had, asked |-> asked,
             gave |-> tok2, skip |-> skip, err |-> None, value |-> d]]

ViewInit ==
    /\ token \in {Undefined, ApiKey}
    /\ logLevel = "none"
    /\ now = 0
    /\ start = 0
    /\ pc = "idle"
    /\ call = None
    /\ args = None
    /\ request = None
    /\ response = None
    /\ result = None
    /\ thrown = None
    /\ log = <<>>
    /\ setLevel = None
    /\ flights = None
    /\ sdk = IdleSdk
    /\ errs = None
    /\ bag = None
    /\ env = None
    /\ rec = None
    /\ \E c \in BOOLEAN, d \in {Undefined, ViewAbc} :
          /\ Truthy(token) => c
          /\ view = [client |-> c, data |-> d,
                     tasks |-> [t \in ViewTasks |-> IdleTask],
                     fetches |-> 0, failed |-> 0, wire |-> <<>>,
                     stored |-> None, replaced |-> FALSE]

\* the synchronous start of data(), of client(), or of an operation that
\* awaits client(): view.ts:156-182.  data() always looks at the cache;
\* client() only when the client has no token.
ViewBegin(t, op, skip) ==
    /\ Len(view.wire) < MaxRequests
    /\ IF (op = "data" \/ ~Truthy(token)) /\ ~Truthy(view.data)
       THEN /\ view' = [SendDataRequest(view, token) EXCEPT
                          !.tasks[t] = [IdleTask EXCEPT
                                          !.op = op, !.end = "fetching",
                                          !.had = token, !.asked = TRUE,
                                          !.skip = skip]]
            /\ token' = token
       ELSE /\ view' = Complete([view EXCEPT !.client = TRUE], t, op, skip,
                                token, FALSE, view.data, token)
            /\ token' = TokenAfter(op, token, view.data, token)
    /\ UNCHANGED <<logLevel, now, start, pc, call, args, request, response,
                   result, thrown, log, setLevel>>
    /\ UNCHANGED <<flights, sdk, errs, bag, env, rec>>

\* a call of data() by a task that has none under way
ViewDataCall ==
    \E t \in ViewTasks :
        /\ view.tasks[t].op = "idle"
        /\ ViewBegin(t, "data", FALSE)

\* a call of client()
ViewClientCall ==
    \E t \in ViewTasks :
        /\ view.tasks[t].op = "idle"
        /\ ViewBegin(t, "client", FALSE)

\* an operation that awaits client() and sends its request, with the
\* token (list) or in skipAuth mode (download)
ViewOperation ==
    \E t \in ViewTasks, skip \in BOOLEAN :
        /\ view.tasks[t].op = "idle"
        /\ ViewBegin(t, "call", skip)

\* the request for the view's data is over and data() goes on:
\* view.ts:182-190, and the caller of data() after it
ViewFetchOver ==
    \E t \in ViewTasks, net \in ViewNets :
      \E x \in {Exchange("GET", <<>>, Undefined, FALSE, FALSE, net)} :
        \E cur \in {view.tasks[t]} :
           /\ cur.end = "fetching"
           /\ IF x.pc = "thrown"
              THEN /\ view' = [view EXCEPT
                                 !.failed = @ + 1,
                                 !.tasks[t] = [cur EXCEPT !.end = "thrown",
                                                          !.err = x.thrown]]
                   /\ token' = token
              ELSE IF Truthy(x.result.err)
              THEN /\ view' = [view EXCEPT
                                 !.failed = @ + 1,
                                 !.tasks[t] =
                                     [cur EXCEPT
                                        !.end = "thrown",
                                        !.err = SetMessage(
                                                  x.result.err,
                                                  "failed to get twintag data")]]
                   /\ token' = token
              ELSE /\ view' = Complete([view EXCEPT
                                          !.data = x.result.payload],
                                       t, cur.op, cur.skip, cur.had, TRUE,
                                       x.result.payload, token)
                   /\ token' = TokenAfter(cur.op, cur.had, x.result.payload,
                                          token)
           /\ UNCHANGED <<logLevel, now, start, pc, call, args, request,
                          response, result, thrown, log, setLevel>>
           /\ UNCHANGED <<flights, sdk, errs, bag, env, rec>>

\* View.setToken called by the user of the view: view.ts:197-202
ViewSetToken ==
    /\ token # ApiKey
    /\ token' = ApiKey
    /\ view' = [view EXCEPT !.client = TRUE, !.replaced = TRUE]
    /\ UNCHANGED <<logLevel, now, start, pc, call, args, request, response,
                   result, thrown, log, setLevel>>
    /\ UNCHANGED <<flights, sdk, errs, bag, env, rec>>

\* the caller takes the outcome of the call
ViewTaskOver ==
    \E t \in ViewTasks :
        /\ view.tasks[t].end \in {"returned", "thrown"}
        /\ view' = [view EXCEPT !.tasks[t] = IdleTask]
        /\ UNCHANGED <<clientVars, flights, sdk, errs, bag, env, rec>>

ViewNext ==
    \/ ViewDataCall
    \/ ViewClientCall
    \/ ViewOperation
    \/ ViewFetchOver
    \/ ViewSetToken
    \/ ViewTaskOver

SpecView == ViewInit /\ [][ViewNext]_vars

\* "Bearer " + token
Bearer(tok) ==
    "Bearer " \o (IF tok.kind = "string" THEN tok.s ELSE "undefined")

\* the call of task t went through client() and has returned
ThroughClient(t) ==
    /\ view.tasks[t].op \in {"client", "call"}
    /\ view.tasks[t].end = "returned"

\* what client() does with the token: with a token on entry it asks for
\* nothing and leaves the token as it is; without one it stores the
\* authToken of the view's data
ClientStoresToken ==
    \A t \in ViewTasks :
        ThroughClient(t)
            => IF Truthy(view.tasks[t].had)
               THEN /\ ~view.tasks[t].asked
                    /\ view.tasks[t].gave = view.tasks[t].had
               ELSE /\ Truthy(view.tasks[t].value)
                    /\ view.tasks[t].gave
                          = Prop(view.tasks[t].value, "authToken")

\* C22 as stated: client() leaves a token it finds and asks for nothing;
\* without one it stores the data's authToken, and every transport call
\* sent after that carries Authorization: Bearer <authToken>.
C22_EveryLaterCallCarriesToken ==
    /\ ClientStoresToken
    /\ \A i \in DOMAIN view.wire :
          (view.wire[i].kind = "call" /\ view.wire[i].stored # None)
              => HeadersGet(view.wire[i].headers, "Authorization")
                     = Bearer(view.wire[i].stored)

\* C22, amended: as above, for the transport calls that do not skip
\* authorization, while the stored authToken is a non-empty string that
\* setToken has not replaced; a call that skips authorization carries no
\* Authorization header.
C22_LaterCallsCarryTokenUnlessSkipped ==
    /\ ClientStoresToken
    /\ \A i \in DOMAIN view.wire :
          view.wire[i].kind = "call"
              => IF view.wire[i].skipAuth
                 THEN ~HeadersHas(view.wire[i].headers, "Authorization")
                 ELSE (Truthy(view.wire[i].stored) /\ ~view.wire[i].replaced)
                          => HeadersGet(view.wire[i].headers, "Authorization")
                                 = Bearer(view.wire[i].stored)

\* client() found no token, fetched the data and stored its authToken, and
\* the operation that awaited it sent its request with that token
C22_Witness ==
    \E t \in ViewTasks :
        /\ view.tasks[t].op = "call"
        /\ view.tasks[t].end = "returned"
        /\ ~view.tasks[t].skip
        /\ ~Truthy(view.tasks[t].had)
        /\ view.tasks[t].asked
        /\ token = Str("abc")
        /\ view.wire # <<>>
        /\ view.wire[Len(view.wire)].kind = "call"
        /\ HeadersGet(view.wire[Len(view.wire)].headers, "Authorization")
               = "Bearer abc"

\* C23: a request for the view's data is sent only while no other is in
\* flight and none has succeeded; and a data() that is given an error
\* throws it with the message 'failed to get twintag data'.
C23_DataFetchedAtMostOnce ==
    /\ view.fetches - view.failed <= 1
    /\ \A t \in ViewTasks :
          (view.tasks[t].end = "thrown"
           /\ view.tasks[t].err.kind = "TwintagError")
              => view.tasks[t].err.message = "failed to get twintag data"


----------------------------------------------------------------------------
(* src/unnamed/part_005: listObject.insert and listObject.update, and the  *)
(* uploads parseResponse starts for the file columns of the record.        *)

MaxFields == 2

RecFields == 1 .. MaxFields

\* what the caller put in a field of the record: a scalar, an object that
\* is not a Blob, or a Blob
FieldKinds == {"scalar", "object", "blob"}

IdleRec ==
    [op |-> "idle", end |-> "idle",
     kinds |-> [f \in RecFields |-> "scalar"],
     cell |-> [f \in RecFields |-> "none"],
     up |-> [f \in RecFields |-> "none"],
     lost |-> [f \in RecFields |-> FALSE],
     atReturn |-> None, err |-> None, unhandled |-> {}]

\* parseForFileType: the fields taken for files are the truthy objects.
\* part_005:127-145
ParseForFileType(kinds) == {f \in RecFields : kinds[f] # "scalar"}

\* parseResponse, to its return: every file column gets a FileUploader,
\* and for a Blob the callback calls Upload and waits; forEach does not
\* wait for its callbacks, so `return resp` follows at once.
\* part_005:154-168
ParseResponse(r, fileTypes) ==
    LET cell == [f \in RecFields |->
                    IF f \in fileTypes THEN "FileUploader" ELSE "value"]
        up == [f \in RecFields |->
                  IF f \in fileTypes /\ r.kinds[f] = "blob" THEN "pending"
                  ELSE "none"]
    IN [r EXCEPT !.cell = cell, !.up = up, !.end = "returned",
                 !.atReturn = [cell |-> cell, up |-> up]]

RecInit ==
    /\ token = Str("abc")
    /\ logLevel = "none"
    /\ now = 0
    /\ start = 0
    /\ pc = "idle"
    /\ call = None
    /\ args = None
    /\ request = None
    /\ response = None
    /\ result = None
    /\ thrown = None
    /\ log = <<>>
    /\ setLevel = None
    /\ flights = None
    /\ sdk = IdleSdk
    /\ errs = None
    /\ bag = None
    /\ view = None
    /\ env = None
    /\ rec = IdleRec

\* insert / update: part_005:101-115 and 199-213
ListPut(op, m) ==
    \E kinds \in [RecFields -> FieldKinds], net \in Nets :
      \E x \in {Exchange("PUT", <<[name |-> "Content-Type",
                                   value |-> "application/json"]>>,
                         WithBody([body |-> Undefined], ObjA).body,
                         FALSE, FALSE, net)} :
        \E r \in {[IdleRec EXCEPT !.op = op, !.kinds = kinds]} :
           /\ rec' = IF x.pc = "thrown"
                     THEN [r EXCEPT !.end = "thrown", !.err = x.thrown]
                     ELSE IF Truthy(x.result.err)
                     THEN [r EXCEPT
                             !.end = "thrown",
                             !.err = SetMessage(x.result.err,
                                                m \o x.result.err.message)]
                     ELSE ParseResponse(r, ParseForFileType(kinds))
           /\ UNCHANGED <<clientVars, flights, sdk, errs, bag, view, env>>

ListInsert ==
    /\ rec.op = "idle"
    /\ ListPut("insert", "failed to insert data: ")

ListUpdate ==
    /\ rec.op = "idle"
    /\ ListPut("update", "failed to update data: ")

\* the upload of the Blob of field f to the signed URL, in the callback of
\* parseResponse: part_005:163 and part_001:55-76.  An exception rejects
\* the callback's promise, which nothing holds.
ListUploadToS3 ==
    \E f \in RecFields, net \in Nets :
      \E x \in {Exchange("put", <<>>, Str(FileBytes), TRUE, TRUE, net)} :
         /\ rec.up[f] = "pending"
         /\ rec' = IF x.pc = "thrown"
                   THEN [rec EXCEPT !.up[f] = "failed",
                                    !.unhandled = @ \cup {f}]
                   ELSE [rec EXCEPT !.up[f] = "uploaded",
                                    !.lost[f] = Truthy(x.result.err)]
         /\ UNCHANGED <<clientVars, flights, sdk, errs, bag, view, env>>

\* the end-upload request of field f, and the callback's last statement
\* `resp[obj.apiName] = fileResp.metafest`: part_001:57, 86-96 and
\* part_005:164
ListEndUpload ==
    \E f \in RecFields, net \in Nets :
      \E x \in {Exchange("PUT", <<>>, WithBody([body |-> Undefined], ObjId).body,
                         FALSE, FALSE, net)} :
         /\ rec.up[f] = "uploaded"
         /\ rec' = IF x.pc = "thrown"
                   THEN [rec EXCEPT !.up[f] = "failed",
                                    !.unhandled = @ \cup {f}]
                   ELSE [rec EXCEPT !.up[f] = "done",
                                    !.cell[f] = "metafest",
                                    !.lost[f] = @ \/ Truthy(x.result.err)]
         /\ UNCHANGED <<clientVars, flights, sdk, errs, bag, view, env>>

\* the record is let go once nothing of it is under way
ListForget ==
    /\ rec.end \in {"returned", "thrown"}
    /\ \A f \in RecFields : rec.up[f] \notin {"pending", "uploaded"}
    /\ rec' = IdleRec
    /\ UNCHANGED <<clientVars, flights, sdk, errs, bag, view, env>>

RecNext ==
    \/ ListInsert
    \/ ListUpdate
    \/ ListUploadToS3
    \/ ListEndUpload
    \/ ListForget

SpecRecord == RecInit /\ [][RecNext]_vars

\* C29: when insert / update resolves, every Blob field of the result
\* holds the file's manifest and its upload is over; and an upload that
\* fails makes insert / update fail.
C29_ResolvesAfterUploads ==
    rec.end = "returned"
        => /\ \A f \in RecFields :
                 rec.kinds[f] = "blob"
                     => /\ rec.atReturn.cell[f] = "metafest"
                        /\ rec.atReturn.up[f] = "done"
           /\ \A f \in RecFields : rec.up[f] # "failed" /\ ~rec.lost[f]


----------------------------------------------------------------------------
(* src/sdk/environment.ts: the hosts and their detection from the page's   *)
(* origin.                                                                 *)

\* `window`: none outside a browser, else the page's location
Windows ==
    {None,
     [hostname |-> "localhost", origin |-> "http://localhost:8080"],
     [hostname |-> "127.0.0.1", origin |-> "http://127.0.0.1:8080"],
     [hostname |-> "app.example.com",
      origin |-> "https://app.example.com:8443"]}

\* the hosts the setters are called with
GivenHosts == {"https://a.test", "https://b.test"}

HostNames == {"host", "adminHost", "cachingHost"}

\* new URL(text).protocol
UrlProtocol(text) ==
    CASE text = "https://twintag.io" -> "https:"
      [] text = "https://app.example.com:8443" -> "https:"
      [] text = "http://localhost:8080" -> "http:"
      [] text = "http://127.0.0.1:8080" -> "http:"
      [] OTHER -> "https:"

\* new URL(text).host: the host name, and the port when it is not the
\* protocol's own
UrlHost(text) ==
    CASE text = "https://twintag.io" -> "twintag.io"
      [] text = "https://app.example.com:8443" -> "app.example.com:8443"
      [] text = "http://localhost:8080" -> "localhost:8080"
      [] text = "http://127.0.0.1:8080" -> "127.0.0.1:8080"
      [] text = "https://a.test" -> "a.test"
      [] OTHER -> "b.test"

\* autoDetectOrigin as it would be without its flag
AutoDetectOriginAlways(e) ==
    LET host == IF e.window # None
                   /\ e.window.hostname # "localhost"
                   /\ e.window.hostname # "127.0.0.1"
                THEN e.window.origin
                ELSE e.host
    IN [e EXCEPT
          !.host = host,
          !.adminHost = UrlProtocol(host) \o "//" \o "admin." \o UrlHost(host),
          !.cachingHost = UrlProtocol(host) \o "//" \o "cache."
                              \o UrlHost(host),
          !.autoDetect = FALSE]

\* autoDetectOrigin: environment.ts:37-54
AutoDetectOrigin(e) ==
    IF ~e.autoDetect THEN e
    ELSE LET host == IF e.window # None
                        /\ e.window.hostname # "localhost"
                        /\ e.window.hostname # "127.0.0.1"
                     THEN e.window.origin
                     ELSE e.host
         IN [e EXCEPT
               !.host = host,
               !.adminHost = UrlProtocol(host) \o "//" \o "admin."
                                 \o UrlHost(host),
               !.cachingHost = UrlProtocol(host) \o "//" \o "cache."
                                   \o UrlHost(host),
               !.autoDetect = FALSE]

\* new Environment(): environment.ts:1-9
NewEnvironment(window) ==
    [host |-> "https://twintag.io", adminHost |-> "", cachingHost |-> "",
     autoDetect |-> TRUE, window |-> window,
     first |-> "none", given |-> [n \in HostNames |-> None],
     last |-> None]

EnvInit ==
    /\ token = Undefined
    /\ logLevel = "none"
    /\ now = 0
    /\ start = 0
    /\ pc = "idle"
    /\ call = None
    /\ args = None
    /\ request = None
    /\ response = None
    /\ result = None
    /\ thrown = None
    /\ log = <<>>
    /\ setLevel = None
    /\ flights = None
    /\ sdk = IdleSdk
    /\ errs = None
    /\ bag = None
    /\ view = None
    /\ rec = None
    /\ \E window \in Windows : env = NewEnvironment(window)

\* the value of the field a getter returns
HostField(e, name) ==
    CASE name = "host" -> e.host
      [] name = "adminHost" -> e.adminHost
      [] OTHER -> e.cachingHost

\* a getter: environment.ts:10-13, 19-22, 28-31
EnvRead(name) ==
    \E e \in {AutoDetectOrigin(env)} :
        /\ env' = [e EXCEPT
                     !.first = IF @ = "none" THEN "read" ELSE @,
                     !.last = [kind |-> "read", name |-> name,
                               value |-> HostField(e, name)]]
        /\ UNCHANGED <<clientVars, flights, sdk, errs, bag, view, rec>>

\* a setter: environment.ts:14-17, 23-26, 32-35, called by setHost,
\* setAdminHost and setCachingHost of sdk.ts:15-35
EnvSet(name, value) ==
    /\ env' = [env EXCEPT
                 !.autoDetect = FALSE,
                 !.host = IF name = "host" THEN value ELSE @,
                 !.adminHost = IF name = "adminHost" THEN value ELSE @,
                 !.cachingHost = IF name = "cachingHost" THEN value ELSE @,
                 !.first = IF @ = "none" THEN "set" ELSE @,
                 !.given[name] = Str(value),
                 !.last = [kind |-> "set", name |-> name, value |-> value]]
    /\ UNCHANGED <<clientVars, flights, sdk, errs, bag, view, rec>>

ReadHost == env.window \in Windows /\ EnvRead("host")

ReadAdminHost == env.window \in Windows /\ EnvRead("adminHost")

ReadCachingHost == env.window \in Windows /\ EnvRead("cachingHost")

SetHost == \E h \in GivenHosts : env.window \in Windows /\ EnvSet("host", h)

SetAdminHost ==
    \E h \in GivenHosts : env.window \in Windows /\ EnvSet("adminHost", h)

SetCachingHost ==
    \E h \in GivenHosts : env.window \in Windows /\ EnvSet("cachingHost", h)

EnvNext ==
    \/ ReadHost
    \/ ReadAdminHost
    \/ ReadCachingHost
    \/ SetHost
    \/ SetAdminHost
    \/ SetCachingHost

SpecEnv == EnvInit /\ [][EnvNext]_vars

\* the three hosts
Hosts(e) == <<e.host, e.adminHost, e.cachingHost>>

\* the hosts a first read detects: the page's origin with its admin. and
\* cache. hosts, and twintag.io's outside a browser and on a local page
Detected(window) ==
    IF window # None /\ window.hostname = "app.example.com"
    THEN <<"https://app.example.com:8443",
           "https://admin.app.example.com:8443",
           "https://cache.app.example.com:8443">>
    ELSE <<"https://twintag.io", "https://admin.twintag.io",
           "https://cache.twintag.io">>

\* a read made after the first access changes none of the three hosts
LateReadChangesNothing ==
    (env.first # "none" /\ env'.last.kind = "read")
        => Hosts(env') = Hosts(env)

\* a host that was set is what a read of it returns; and as long as no
\* setter was called, the hosts after the first read are the detected ones
ReadsReturnGivenOrDetected ==
    /\ (env.last # None /\ env.last.kind = "read"
        /\ env.given[env.last.name] # None)
           => env.last.value = env.given[env.last.name].s
    /\ (env.first = "read" /\ \A n \in HostNames : env.given[n] = None)
           => Hosts(env) = Detected(env.window)

============================================================================
